---- MODULE Spec2Model ----
(***************************************************************************)
(* Model of the G1 smart-glasses protocol engine, class                    *)
(* EvenRealitiesG1Manager of src/src/contoller/glasses2.ts (the controller *)
(* the application imports).                                               *)
(*                                                                         *)
(* Every async method is a process.  One action of the model is one run of *)
(* the JavaScript event loop for that method: the completion of the        *)
(* operation the method awaits, followed by the synchronous code up to the *)
(* next await.  Consecutive awaits with no access to the session's fields  *)
(* between them are one step.  The BLE transport (react-native-ble-plx) is *)
(* the environment: each of its calls completes with success or an error.  *)
(***************************************************************************)
EXTENDS Integers, Sequences, FiniteSets, TLC

\* ---------------------------------------------------------------- bounds
\* A behaviour of Spec follows one of two plans of the caller and the
\* timers: the lifecycle plan (connects, disconnects, ticks) or the transfer
\* plan (one connect, one disconnect, one tick, send operations).  A
\* behaviour of InboundSpec follows the inbound plan (one connect, observers,
\* notifications from the glasses).
MaxConnects == 2        \* connectToGlasses calls of the lifecycle plan
MaxDisconnects == 2     \* disconnect() calls of the lifecycle plan
MaxTicks == 2           \* heartbeat ticks of the lifecycle plan
MaxSends == 1           \* send operations of the transfer plan
MaxNotifications == 2   \* inbound notifications of the inbound plan
MaxObservers == 2       \* observer registrations of the inbound plan
MaxFrames == 520        \* frames built in a behaviour of FrameSpec
MaxWords == 3           \* words of a text laid out in a behaviour of LayoutSpec
MaxLines == 11          \* lines of the longest text laid out in LayoutSpec
MaxImageBytes == 600    \* bytes of the longest image packed in PacketSpec
MaxAudioCalls == 2      \* getAudioRecording calls in a behaviour of AudioSpec

\* ------------------------------------------------------ program constants
DISPLAY_WIDTH == 488
BMP_WIDTH == 576
BMP_HEIGHT == 136
BMP_CHUNK_SIZE == 192
TEXT_CHUNK_SIZE == 184
LINES_PER_SCREEN == 5
NOTIFICATION_MAX == 180
SEND_TEXT == 78         \* 0x4E
SEND_BITMAP == 21       \* 0x15
INIT == 77              \* 0x4D
SEND_HEARTBEAT == 37    \* 0x25
CRC_CHECK == 22         \* 0x16
NEW_CONTENT == 1        \* SCREEN_STATUS.NEW_CONTENT, 0x01
TEXT_SHOW == 112        \* SCREEN_STATUS.TEXT_SHOW, 0x70
FONT_SIZE == 21

Side == {"left", "right"}
Other(e) == IF e = "left" THEN "right" ELSE "left"

\* Callers of sendCommand that can have writes in flight.
Owners == {"init", "hb", "text", "bmp", "op", "event", "audio"}

VARIABLES
  leftDevice,             \* this.leftDevice  # null
  rightDevice,            \* this.rightDevice # null
  leftTxCharacteristic,   \* this.leftTxCharacteristic  # null
  rightTxCharacteristic,  \* this.rightTxCharacteristic # null
  isConnected,            \* this.isConnected
  heartbeatInterval,      \* this.heartbeatInterval: 0 is null, else a timer id
  heartbeatSequence,      \* this.heartbeatSequence
  heartbeatCommand,       \* the frame the last heartbeat tick built, <<>> before the first
  sequenceNumber,         \* this.sequenceNumber
  sequenceByte,           \* sequence byte of the last frame built, -1 before the first
  timers,                 \* ids of the intervals the runtime still fires
  timerCount,             \* ids handed out by setInterval so far
  linkOpen,               \* transport: the BLE connection of each endpoint is open
  subscribed,             \* transport: the RX monitor of each endpoint is set up
  deviceState,            \* the five flags isInCase .. isInSilentMode
  onDeviceEventCallbacks, \* this.onDeviceEventCallbacks, observers by name
  onBatteryUpdateCallbacks, \* this.onBatteryUpdateCallbacks, observers by name
  lastInbound,            \* the last inbound notification: payload and endpoint
  dispatched,             \* what the last inbound notification handed to observers
  delivered,              \* observers it invoked, in order
  outstanding,            \* per caller of sendCommand: endpoints with a write in flight
  budget,                 \* calls and ticks the plan still allows
  cpc,                    \* position of connectToGlasses
  cd,                     \* position of each connectToDevice call
  connResult,             \* value returned by the last finished connectToGlasses
  initLog,                \* writes of the init frame the transport acknowledged
                          \* since connectToGlasses was last called
  dpc,                    \* position of the caller's disconnect()
  quiet,                  \* "yes": a caller's disconnect() that overlapped no
                          \* connectToGlasses has returned and connectToGlasses
                          \* was not called since; "closing": such a disconnect()
                          \* is running; "no" otherwise
  hbFailTick,             \* number of the tick of the last failed heartbeat write
  lastOp,                 \* the last single-frame send operation and its outcome
  tpc,                    \* position of sendText
  text,                   \* sendText: the words of the text being sent
  tIdx,                   \* sendText: number of the frame being sent
  textDone,               \* sendText: writes of the last call each endpoint acknowledged
  textFailed,             \* sendText: a write of the last call failed
  textResult,             \* outcome of the last sendText call
  bpc,                    \* position of sendBMPImage
  bSide,                  \* sendBMPImage: endpoint of the current sendCommand
  bIdx,                   \* sendBMPImage: number of the packet being sent
  image,                  \* sendBMPImage: the image of the last call
  bmpLog,                 \* sendBMPImage: frames acknowledged, in order
  bmpFailed,              \* sendBMPImage: a write of the last call failed
  bmpResult,              \* outcome of the last sendBMPImage call
  layoutText,             \* layout: text.split(' '), the words of the text
  layoutLines,            \* layout: value returned by splitTextIntoLines
  layoutScreens,          \* layout: value returned by splitIntoScreens
  layoutStep,             \* layout: "text", then "lines", then "screens"
  wireIn,                 \* frame building: the arguments of the operation
  wireOut,                \* frame building: what the operation built
  apc,                    \* position of getAudioRecording
  audioArgs,              \* getAudioRecording: the sequence argument of each call
  audioResult             \* how the last getAudioRecording call settled

sessionVars == <<leftDevice, rightDevice, leftTxCharacteristic,
                 rightTxCharacteristic, isConnected, heartbeatInterval>>
hbVars == <<heartbeatSequence, heartbeatCommand, hbFailTick>>
connVars == <<cpc, cd, connResult, initLog>>
discVars == <<dpc, quiet>>
textVars == <<tpc, text, tIdx, textDone, textFailed, textResult>>
bmpVars == <<bpc, bSide, bIdx, image, bmpLog, bmpFailed, bmpResult>>
seqVars == <<sequenceNumber, sequenceByte>>
inboundVars == <<deviceState, onDeviceEventCallbacks, onBatteryUpdateCallbacks,
                 lastInbound, dispatched, delivered>>
layoutVars == <<layoutText, layoutLines, layoutScreens, layoutStep>>
wireVars == <<wireIn, wireOut>>
audioVars == <<apc, audioArgs, audioResult>>
sendVars == <<lastOp, textVars, bmpVars, seqVars, inboundVars, layoutVars,
              wireVars, audioVars>>

vars == <<leftDevice, rightDevice, leftTxCharacteristic, rightTxCharacteristic,
          isConnected, heartbeatInterval, heartbeatSequence, heartbeatCommand,
          sequenceNumber,
          sequenceByte, timers, timerCount,
          linkOpen, subscribed, outstanding, budget, cpc, cd, connResult, initLog,
          dpc,
          quiet, hbFailTick, lastOp, tpc, text, tIdx, textDone,
          textFailed, textResult, bpc, bSide, bIdx, image, bmpLog, bmpFailed,
          bmpResult, deviceState, onDeviceEventCallbacks,
          onBatteryUpdateCallbacks, lastInbound, dispatched, delivered,
          layoutText, layoutLines, layoutScreens, layoutStep, wireIn, wireOut,
          apc, audioArgs, audioResult>>

Tx(e) == IF e = "left" THEN leftTxCharacteristic ELSE rightTxCharacteristic

\* Outcomes of characteristic.writeWithResponse on endpoint e.
WriteOutcomes(e) == IF linkOpen[e] THEN {"ok", "fail"} ELSE {"fail"}

\* sendCommand: the endpoints it writes to, given toLeft / toRight.
sendCommand(toLeft, toRight) ==
  {e \in Side : /\ Tx(e)
                /\ \/ e = "left" /\ toLeft
                   \/ e = "right" /\ toRight}

\* Variant of promiseAllResolves: the first write to succeed resolves.
promiseAnyResolves(owner, e) == TRUE

\* await Promise.all(promises) of sendCommand resolves when the write to e
\* succeeds and no other write of the call is outstanding.
promiseAllResolves(owner, e) == outstanding[owner] = {e}

\* Variant of ToUint8 that clamps, as a Uint8ClampedArray does.
ToUint8Clamped(n) == IF n > 255 THEN 255 ELSE n

\* Storing a number into an element of a Uint8Array keeps its low 8 bits.
ToUint8(n) == n % 256

\* n & 0xFF for a non-negative n below 2^31.
AndFF(n) == n % 256

\* ------------------------------------------------------------ text layout
\* A text is the list text.split(' ') of its words; a word is modelled by
\* its length in characters (one byte each), a line by the list of its words.
RECURSIVE SumSeq(_)
SumSeq(q) == IF q = <<>> THEN 0 ELSE Head(q) + SumSeq(Tail(q))

\* Length of the string that joins the words of a line with single spaces.
LineLength(line) == IF line = <<>> THEN 0 ELSE SumSeq(line) + Len(line) - 1

\* Variant of FitsDisplay that measures against the width of an image.
FitsImageWidth(n) == n * 126 <= BMP_WIDTH * 10

\* testLine.length * (21 * 0.6) <= 488, in tenths of a pixel.
FitsDisplay(n) == n * 126 <= DISPLAY_WIDTH * 10

\* Variant of the loop of splitTextIntoLines that skips a word too wide for
\* a line of its own instead of pushing it.
RECURSIVE splitLoopSkipsWideWord(_, _, _)
splitLoopSkipsWideWord(words, lines, currentLine) ==
  IF words = <<>>
    THEN IF LineLength(currentLine) > 0 THEN Append(lines, currentLine) ELSE lines
    ELSE LET word == Head(words)
             testLine == IF LineLength(currentLine) > 0
                           THEN Append(currentLine, word) ELSE <<word>>
         IN  IF FitsDisplay(LineLength(testLine))
               THEN splitLoopSkipsWideWord(Tail(words), lines, testLine)
               ELSE IF LineLength(currentLine) > 0
                      THEN splitLoopSkipsWideWord(Tail(words),
                                                  Append(lines, currentLine), <<word>>)
                      ELSE splitLoopSkipsWideWord(Tail(words), lines, currentLine)

\* The loop of splitTextIntoLines over the words still to place, with the
\* lines pushed so far and the line being filled.
RECURSIVE splitLoop(_, _, _)
splitLoop(words, lines, currentLine) ==
  IF words = <<>>
    THEN IF LineLength(currentLine) > 0 THEN Append(lines, currentLine) ELSE lines
    ELSE LET word == Head(words)
             testLine == IF LineLength(currentLine) > 0
                           THEN Append(currentLine, word) ELSE <<word>>
         IN  IF FitsDisplay(LineLength(testLine))
               THEN splitLoop(Tail(words), lines, testLine)
               ELSE IF LineLength(currentLine) > 0
                      THEN splitLoop(Tail(words), Append(lines, currentLine), <<word>>)
                      ELSE splitLoop(Tail(words), Append(lines, <<word>>), currentLine)

splitTextIntoLines(words) == splitLoop(words, <<>>, <<>>)

\* Variant of splitIntoScreens whose slices end one line late:
\* lines.slice(i, i + 6) with i += 5.
RECURSIVE splitIntoScreensOverlapping(_)
splitIntoScreensOverlapping(lines) ==
  IF lines = <<>> THEN <<>>
  ELSE IF Len(lines) <= LINES_PER_SCREEN THEN <<lines>>
  ELSE <<SubSeq(lines, 1, LINES_PER_SCREEN + 1)>>
         \o splitIntoScreensOverlapping(SubSeq(lines, LINES_PER_SCREEN + 1, Len(lines)))

\* for (i = 0; i < lines.length; i += 5) screens.push(lines.slice(i, i + 5))
RECURSIVE splitIntoScreens(_)
splitIntoScreens(lines) ==
  IF lines = <<>> THEN <<>>
  ELSE IF Len(lines) <= LINES_PER_SCREEN THEN <<lines>>
  ELSE <<SubSeq(lines, 1, LINES_PER_SCREEN)>>
         \o splitIntoScreens(SubSeq(lines, LINES_PER_SCREEN + 1, Len(lines)))

\* Bytes of lines.join('\n').
RECURSIVE ScreenBytes(_)
ScreenBytes(lines) ==
  IF lines = <<>> THEN 0
  ELSE LineLength(Head(lines)) + (IF Len(lines) > 1 THEN 1 ELSE 0)
         + ScreenBytes(Tail(lines))

\* createTextPackets: the number of chunks of 194 - 10 bytes.
createTextPackets(lines) ==
  (ScreenBytes(lines) + TEXT_CHUNK_SIZE - 1) \div TEXT_CHUNK_SIZE

\* The frames sendText sends, in order: screen by screen, packet by packet.
RECURSIVE screenFrames(_, _)
screenFrames(screens, screenIndex) ==
  IF screenIndex >= Len(screens) THEN <<>>
  ELSE LET n == createTextPackets(screens[screenIndex + 1])
       IN  [k \in 1..n |-> [page |-> screenIndex, maxPages |-> Len(screens),
                            packet |-> k - 1, total |-> n]]
             \o screenFrames(screens, screenIndex + 1)

TextFrames(words) == screenFrames(splitIntoScreens(splitTextIntoLines(words)), 0)

\* screens.flat(): the lines of the screens, in order.
RECURSIVE flat(_)
flat(screens) == IF screens = <<>> THEN <<>> ELSE Head(screens) \o flat(Tail(screens))

\* ------------------------------------------------------------ image layout
\* Variant of createBMPPackets that leaves the storage address out.
createBMPPacketsNoAddress(len) ==
  [k \in 1..((len + BMP_CHUNK_SIZE - 1) \div BMP_CHUNK_SIZE) |->
     LET i == (k - 1) * BMP_CHUNK_SIZE
         chunk == IF len - i < BMP_CHUNK_SIZE THEN len - i ELSE BMP_CHUNK_SIZE
     IN  [index |-> (i \div BMP_CHUNK_SIZE) % 256, length |-> chunk + 2]]

\* createBMPPackets: one packet per chunk of 192 bytes of the image data;
\* packet 0 carries the 4-byte storage address after the 2-byte header.
createBMPPackets(len) ==
  [k \in 1..((len + BMP_CHUNK_SIZE - 1) \div BMP_CHUNK_SIZE) |->
     LET i == (k - 1) * BMP_CHUNK_SIZE
         chunk == IF len - i < BMP_CHUNK_SIZE THEN len - i ELSE BMP_CHUNK_SIZE
     IN  [index |-> (i \div BMP_CHUNK_SIZE) % 256,
          length |-> chunk + (IF i = 0 THEN 6 ELSE 2)]]

\* ------------------------------------------------------------------ inputs
TextInputs == { <<0>>, <<5, 5>>, <<20, 20, 20, 20, 20, 20>> }
BmpImages ==
  { [width |-> 576, height |-> 136, len |-> 300],
    [width |-> 500, height |-> 136, len |-> 300],
    [width |-> 488, height |-> 64, len |-> 150] }
SimpleOps == {"sendNotification", "setBrightness", "setSilentMode",
              "clearScreen", "getBatteryStatus", "setDashboardTimeAndWeather"}
NotificationSizes == {NOTIFICATION_MAX, NOTIFICATION_MAX + 1}
Plans ==
  { [connect |-> MaxConnects, disconnect |-> MaxDisconnects, tick |-> MaxTicks,
     send |-> 0, notify |-> 0, register |-> 0],
    [connect |-> 1, disconnect |-> 1, tick |-> 1, send |-> MaxSends,
     notify |-> 0, register |-> 0] }
InboundPlan ==
  [connect |-> 1, disconnect |-> 0, tick |-> 0, send |-> 0,
   notify |-> MaxNotifications, register |-> MaxObservers]
NoDeviceState ==
  [isInCase |-> FALSE, isCaseOpen |-> FALSE, isGlassesWorn |-> FALSE,
   isGlassesCharging |-> FALSE, isInSilentMode |-> FALSE]
NoDispatch == [kind |-> "none"]
NoOp == [op |-> "none", size |-> 0, connected |-> FALSE, issued |-> 0,
         outcome |-> "none"]

\* The session as the constructor leaves it.  The text-layout methods read
\* no field of the session.
Session ==
  /\ leftDevice = FALSE
  /\ rightDevice = FALSE
  /\ leftTxCharacteristic = FALSE
  /\ rightTxCharacteristic = FALSE
  /\ isConnected = FALSE
  /\ heartbeatInterval = 0
  /\ heartbeatSequence = 0
  /\ heartbeatCommand = <<>>
  /\ sequenceNumber = 0
  /\ sequenceByte = -1
  /\ timers = {}
  /\ timerCount = 0
  /\ linkOpen = [e \in Side |-> FALSE]
  /\ subscribed = [e \in Side |-> FALSE]
  /\ deviceState = NoDeviceState
  /\ onDeviceEventCallbacks = <<>>
  /\ onBatteryUpdateCallbacks = <<>>
  /\ lastInbound = [payload |-> <<>>, isLeft |-> FALSE]
  /\ dispatched = NoDispatch
  /\ delivered = <<>>
  /\ outstanding = [o \in Owners |-> {}]
  /\ cpc = "idle"
  /\ cd = [e \in Side |-> "idle"]
  /\ connResult = "none"
  /\ initLog = <<>>
  /\ dpc = "idle"
  /\ quiet = "no"
  /\ hbFailTick = 0
  /\ lastOp = NoOp
  /\ tpc = "idle"
  /\ text = <<>>
  /\ tIdx = 0
  /\ textDone = [e \in Side |-> 0]
  /\ textFailed = FALSE
  /\ textResult = "none"
  /\ bpc = "idle"
  /\ bSide = "left"
  /\ bIdx = 0
  /\ image = [width |-> 0, height |-> 0, len |-> 0]
  /\ bmpLog = <<>>
  /\ bmpFailed = FALSE
  /\ bmpResult = "none"
  /\ apc = "idle"
  /\ audioArgs = <<>>
  /\ audioResult = "none"

\* No text has been laid out.
NoLayout ==
  /\ layoutText = <<>>
  /\ layoutLines = <<>>
  /\ layoutScreens = <<>>
  /\ layoutStep = "text"

\* No frame has been built apart from a transfer.
NoWire ==
  /\ wireIn = [op |-> "none"]
  /\ wireOut = [built |-> FALSE]

Constructed == Session /\ NoLayout /\ NoWire

Init == Constructed /\ budget \in Plans

\* ------------------------------------------------------------ disconnect
\* Label disconnect() reaches after its synchronous prefix.
disconnectEntry ==
  IF leftDevice THEN "cancelL" ELSE IF rightDevice THEN "cancelR" ELSE "return"

\* stopHeartbeat: clearInterval of the timer the field names, if any.
stopHeartbeat ==
  /\ timers' = timers \ {heartbeatInterval}
  /\ heartbeatInterval' = 0

\* disconnect() up to its first await: stopHeartbeat(); isConnected = false;
\* and, when no device is held, the clearing of both characteristics.
\* l and r are the two characteristics as the caller left them.
disconnectFrom(l, r) ==
  /\ stopHeartbeat
  /\ isConnected' = FALSE
  /\ IF disconnectEntry = "return"
       THEN leftTxCharacteristic' = FALSE /\ rightTxCharacteristic' = FALSE
       ELSE leftTxCharacteristic' = l /\ rightTxCharacteristic' = r
  /\ UNCHANGED <<leftDevice, rightDevice, linkOpen, subscribed>>

disconnect == disconnectFrom(leftTxCharacteristic, rightTxCharacteristic)

\* Label after leftDevice.cancelConnection() settled.
cancelLeftNext(ok) ==
  IF ~ok THEN "return" ELSE IF rightDevice THEN "cancelR" ELSE "return"

\* leftDevice.cancelConnection() settled: on success the handle is dropped
\* and disconnect() goes on; an error is caught and ends disconnect().
cancelLeft(ok) ==
  /\ IF ok
       THEN /\ linkOpen' = [linkOpen EXCEPT !["left"] = FALSE]
            /\ subscribed' = [subscribed EXCEPT !["left"] = FALSE]
            /\ leftDevice' = FALSE
       ELSE UNCHANGED <<linkOpen, subscribed, leftDevice>>
  /\ IF ok /\ ~rightDevice
       THEN leftTxCharacteristic' = FALSE /\ rightTxCharacteristic' = FALSE
       ELSE UNCHANGED <<leftTxCharacteristic, rightTxCharacteristic>>
  /\ UNCHANGED <<rightDevice, isConnected, heartbeatInterval, timers>>

\* rightDevice.cancelConnection() settled.
cancelRight(ok) ==
  /\ IF ok
       THEN /\ linkOpen' = [linkOpen EXCEPT !["right"] = FALSE]
            /\ subscribed' = [subscribed EXCEPT !["right"] = FALSE]
            /\ rightDevice' = FALSE
            /\ leftTxCharacteristic' = FALSE
            /\ rightTxCharacteristic' = FALSE
       ELSE UNCHANGED <<linkOpen, subscribed, rightDevice, leftTxCharacteristic,
                        rightTxCharacteristic>>
  /\ UNCHANGED <<leftDevice, isConnected, heartbeatInterval, timers>>

\* What the connect and disconnect steps leave alone.
idleVars == <<heartbeatSequence, heartbeatCommand, hbFailTick, timerCount, sendVars>>

\* No connectToGlasses call, and no connectToDevice it left behind, is running.
connectIdle == cpc = "idle" /\ \A e \in Side : cd[e] = "idle"

\* The caller invokes disconnect().
DisconnectCall ==
  /\ budget.disconnect > 0
  /\ dpc = "idle"
  /\ budget' = [budget EXCEPT !.disconnect = @ - 1]
  /\ disconnect
  /\ dpc' = IF disconnectEntry = "return" THEN "idle" ELSE disconnectEntry
  /\ quiet' = IF ~connectIdle THEN "no"
              ELSE IF disconnectEntry = "return" \/ quiet = "yes" THEN "yes"
              ELSE "closing"
  /\ UNCHANGED <<idleVars, outstanding, connVars>>

\* The caller's disconnect(): leftDevice.cancelConnection() settled.
DisconnectCancelLeft ==
  /\ dpc = "cancelL"
  /\ \E ok \in BOOLEAN :
       /\ cancelLeft(ok)
       /\ dpc' = IF cancelLeftNext(ok) = "return" THEN "idle" ELSE "cancelR"
       /\ quiet' = IF cancelLeftNext(ok) = "return" /\ quiet = "closing"
                   THEN "yes" ELSE quiet
  /\ UNCHANGED <<idleVars, outstanding, budget, connVars>>

\* The caller's disconnect(): rightDevice.cancelConnection() settled.
DisconnectCancelRight ==
  /\ dpc = "cancelR"
  /\ \E ok \in BOOLEAN : cancelRight(ok)
  /\ dpc' = "idle"
  /\ quiet' = IF quiet = "closing" THEN "yes" ELSE quiet
  /\ UNCHANGED <<idleVars, outstanding, budget, connVars>>

\* ------------------------------------------------------------- heartbeat
\* setInterval registers a new timer; the previous id is overwritten.
startHeartbeat ==
  /\ timerCount' = timerCount + 1
  /\ heartbeatInterval' = timerCount + 1
  /\ timers' = timers \cup {timerCount + 1}

\* A timer fires: the callback takes the next heartbeat sequence and hands
\* the frame to sendCommand for both endpoints.
HeartbeatTick ==
  /\ timers # {}
  /\ budget.tick > 0
  /\ outstanding["hb"] = {}
  /\ budget' = [budget EXCEPT !.tick = @ - 1]
  /\ heartbeatCommand' = <<SEND_HEARTBEAT, AndFF(heartbeatSequence)>>
  /\ heartbeatSequence' = heartbeatSequence + 1
  /\ outstanding' = [outstanding EXCEPT !["hb"] = sendCommand(TRUE, TRUE)]
  /\ UNCHANGED <<sessionVars, timers, timerCount, linkOpen, subscribed, connVars,
                 discVars, hbFailTick, sendVars>>

\* Variant of heartbeatSettled in which a failed write stops the heartbeat.
heartbeatSettledStops(outcome) ==
  /\ hbFailTick' = IF outcome = "fail" THEN heartbeatSequence ELSE hbFailTick
  /\ timers' = IF outcome = "fail" THEN timers \ {heartbeatInterval} ELSE timers
  /\ heartbeatInterval' = IF outcome = "fail" THEN 0 ELSE heartbeatInterval
  /\ UNCHANGED <<leftDevice, rightDevice, leftTxCharacteristic,
                 rightTxCharacteristic, isConnected>>

\* The callback's handling of a settled heartbeat write: an error is
\* caught and logged, nothing else.
heartbeatSettled(outcome) ==
  /\ hbFailTick' = IF outcome = "fail" THEN heartbeatSequence ELSE hbFailTick
  /\ UNCHANGED <<sessionVars, timers>>

\* A heartbeat write settles.
HeartbeatWriteDone(e) ==
  /\ e \in outstanding["hb"]
  /\ outstanding' = [outstanding EXCEPT !["hb"] = @ \ {e}]
  /\ \E outcome \in WriteOutcomes(e) : heartbeatSettled(outcome)
  /\ UNCHANGED <<timerCount, linkOpen, subscribed, budget, connVars, discVars,
                 heartbeatSequence, heartbeatCommand, sendVars>>

\* ------------------------------------------------------ connectToGlasses
\* The catch block of connectToGlasses: await this.disconnect(); return false.
ConnectCatch(l, r) ==
  /\ disconnectFrom(l, r)
  /\ cpc' = IF disconnectEntry = "return" THEN "idle" ELSE disconnectEntry
  /\ connResult' = IF disconnectEntry = "return" THEN "false" ELSE connResult

\* The caller invokes connectToGlasses: both connectToDevice calls start.
ConnectCall ==
  /\ budget.connect > 0
  /\ cpc = "idle"
  /\ \A e \in Side : cd[e] = "idle"
  /\ budget' = [budget EXCEPT !.connect = @ - 1]
  /\ cpc' = "connecting"
  /\ cd' = [e \in Side |-> "pending"]
  /\ connResult' = "none"
  /\ initLog' = <<>>
  /\ quiet' = "no"
  /\ UNCHANGED <<idleVars, sessionVars, timers, linkOpen, subscribed, outstanding, dpc>>

\* connectToDevice(e) resolved: the link is open and discovered.  When it
\* completes the Promise.all, both handles are stored and
\* setupCharacteristics starts.
ConnectToDeviceResolved(e) ==
  /\ UNCHANGED initLog
  /\ cd[e] = "pending"
  /\ linkOpen' = [linkOpen EXCEPT ![e] = TRUE]
  /\ UNCHANGED subscribed
  /\ IF cpc = "connecting" /\ cd[Other(e)] = "ok"
       THEN /\ leftDevice' = TRUE
            /\ rightDevice' = TRUE
            /\ cd' = [s \in Side |-> "idle"]
            /\ cpc' = "setupCharacteristics"
       ELSE /\ cd' = [cd EXCEPT ![e] = IF cpc = "connecting" THEN "ok" ELSE "idle"]
            /\ UNCHANGED <<leftDevice, rightDevice, cpc>>
  /\ UNCHANGED <<idleVars, leftTxCharacteristic, rightTxCharacteristic,
                 isConnected, heartbeatInterval, timers, outstanding, budget,
                 connResult, discVars>>

\* connectToDevice(e) rejected: bleManager.connectToDevice failed (opened
\* is false) or the discovery on the open link failed (opened is true).
\* The first rejection rejects the Promise.all: no handle is stored and the
\* catch block runs; the other connectToDevice keeps running.
ConnectToDeviceRejected(e, opened) ==
  /\ UNCHANGED initLog
  /\ cd[e] = "pending"
  /\ IF cpc = "connecting"
       THEN /\ cd' = [cd EXCEPT ![e] = "idle",
                                ![Other(e)] = IF @ = "ok" THEN "idle" ELSE @]
            /\ stopHeartbeat
            /\ isConnected' = FALSE
            /\ IF disconnectEntry = "return"
                 THEN leftTxCharacteristic' = FALSE /\ rightTxCharacteristic' = FALSE
                 ELSE UNCHANGED <<leftTxCharacteristic, rightTxCharacteristic>>
            /\ cpc' = IF disconnectEntry = "return" THEN "idle" ELSE disconnectEntry
            /\ connResult' = IF disconnectEntry = "return" THEN "false" ELSE connResult
       ELSE /\ cd' = [cd EXCEPT ![e] = "idle"]
            /\ UNCHANGED <<leftTxCharacteristic, rightTxCharacteristic,
                           isConnected, heartbeatInterval, timers, cpc, connResult>>
  /\ linkOpen' = [linkOpen EXCEPT ![e] = @ \/ opened]
  /\ UNCHANGED subscribed
  /\ UNCHANGED <<idleVars, leftDevice, rightDevice, outstanding, budget, discVars>>

\* setupCharacteristics settled: an error of services() / characteristics()
\* (ok false), or both fields assigned from the lookups l and r, a missing
\* one throwing.  Then setupNotifications starts; with a handle cleared
\* meanwhile it returns at once and sendInitialCommands sends the init frame.
SetupCharacteristics ==
  /\ UNCHANGED initLog
  /\ cpc = "setupCharacteristics"
  /\ \E ok \in BOOLEAN, l \in BOOLEAN, r \in BOOLEAN :
       /\ ~ok => (l /\ r)
       /\ IF ~ok
            THEN /\ ConnectCatch(leftTxCharacteristic, rightTxCharacteristic)
                 /\ UNCHANGED outstanding
            ELSE IF ~(l /\ r)
              THEN ConnectCatch(l, r) /\ UNCHANGED outstanding
              ELSE /\ leftTxCharacteristic' = TRUE
                   /\ rightTxCharacteristic' = TRUE
                   /\ IF leftDevice /\ rightDevice
                        THEN cpc' = "setupNotifications" /\ UNCHANGED outstanding
                        ELSE /\ cpc' = "initWrite"
                             /\ outstanding' = [outstanding EXCEPT !["init"] = {"left"}]
                   /\ UNCHANGED <<leftDevice, rightDevice, isConnected,
                                  heartbeatInterval, timers, linkOpen, subscribed, connResult>>
  /\ UNCHANGED <<idleVars, budget, cd, discVars>>

\* setupNotifications settled (a handle cleared between its two monitor
\* calls throws, like a failing monitor call); sendInitialCommands hands
\* the init frame to sendCommand for the left endpoint only.
SetupNotifications ==
  /\ UNCHANGED initLog
  /\ cpc = "setupNotifications"
  /\ \E ok \in BOOLEAN :
       IF ok
         THEN /\ cpc' = "initWrite"
              /\ outstanding' = [outstanding EXCEPT !["init"] = sendCommand(TRUE, FALSE)]
              /\ subscribed' = [e \in Side |-> TRUE]
              /\ UNCHANGED <<sessionVars, timers, linkOpen, connResult>>
         ELSE /\ ConnectCatch(leftTxCharacteristic, rightTxCharacteristic)
              /\ UNCHANGED outstanding
  /\ UNCHANGED <<idleVars, budget, cd, discVars>>

\* The init frame of sendInitialCommands.
initCommand == <<INIT, 251>>

\* sendInitialCommands: the init write settled (or there was none to wait
\* for); the 100 ms delay starts.
SendInitialCommands ==
  /\ cpc = "initWrite"
  /\ outstanding' = [outstanding EXCEPT !["init"] = {}]
  /\ \E outcome \in (IF outstanding["init"] = {} THEN {"none"}
                                                ELSE WriteOutcomes("left")) :
       /\ initLog' = IF outcome = "ok"
                        THEN Append(initLog, <<"left", initCommand>>) ELSE initLog
       /\ IF outcome = "fail"
            THEN ConnectCatch(leftTxCharacteristic, rightTxCharacteristic)
            ELSE cpc' = "initDelay" /\ UNCHANGED <<sessionVars, timers, linkOpen, subscribed, connResult>>
  /\ UNCHANGED <<idleVars, budget, cd, discVars>>

\* The delay is over: startHeartbeat(); this.isConnected = true; return true.
ConnectDone ==
  /\ UNCHANGED initLog
  /\ cpc = "initDelay"
  /\ startHeartbeat
  /\ isConnected' = TRUE
  /\ connResult' = "true"
  /\ cpc' = "idle"
  /\ UNCHANGED <<leftDevice, rightDevice, leftTxCharacteristic,
                 rightTxCharacteristic, linkOpen, subscribed, outstanding, budget, cd,
                 discVars, hbVars, sendVars>>

\* The disconnect() of the catch block: leftDevice.cancelConnection() settled.
ConnectCancelLeft ==
  /\ UNCHANGED initLog
  /\ cpc = "cancelL"
  /\ \E ok \in BOOLEAN :
       /\ cancelLeft(ok)
       /\ cpc' = IF cancelLeftNext(ok) = "return" THEN "idle" ELSE "cancelR"
       /\ connResult' = IF cancelLeftNext(ok) = "return" THEN "false" ELSE connResult
  /\ UNCHANGED <<idleVars, outstanding, budget, cd, discVars>>

\* The disconnect() of the catch block: rightDevice.cancelConnection() settled.
ConnectCancelRight ==
  /\ UNCHANGED initLog
  /\ cpc = "cancelR"
  /\ \E ok \in BOOLEAN : cancelRight(ok)
  /\ cpc' = "idle"
  /\ connResult' = "false"
  /\ UNCHANGED <<idleVars, outstanding, budget, cd, discVars>>

\* -------------------------------------------------------- send operations
\* Everything a send operation leaves alone.
coreVars == <<sessionVars, timers, timerCount, linkOpen, subscribed, connVars,
              discVars, hbVars, inboundVars, layoutVars, wireVars, audioVars>>

\* this.sequenceNumber++, the value read going into the frame as byte.
nextSequence(byte) ==
  /\ sequenceByte' = byte
  /\ sequenceNumber' = sequenceNumber + 1

\* createTextPacket: the sequence goes into the header array.
createTextPacket == nextSequence(ToUint8(sequenceNumber))

\* setDashboardTimeAndWeather: command[3] = this.sequenceNumber++ & 0xFF.
dashboardSequence == nextSequence(AndFF(sequenceNumber))

\* Endpoints each single-frame operation passes to sendCommand.
ToLeft(op) == op # "setBrightness"
ToRight(op) == op # "sendNotification"

\* Variant of notificationTooLarge that also refuses a payload at the cap.
notificationAtLeastCap(size) == size >= NOTIFICATION_MAX

\* The size check of sendNotification on the bytes of the JSON.
notificationTooLarge(size) == size > NOTIFICATION_MAX

\* sendNotification, setBrightness, setSilentMode, clearScreen,
\* getBatteryStatus and setDashboardTimeAndWeather: build one frame and
\* await sendCommand.  size is the length of the notification's JSON.
SimpleSendCall(op, size) ==
  /\ budget.send > 0
  /\ lastOp.outcome # "pending"
  /\ outstanding["op"] = {}
  /\ budget' = [budget EXCEPT !.send = @ - 1]
  /\ IF op = "setDashboardTimeAndWeather"
       THEN dashboardSequence ELSE UNCHANGED seqVars
  /\ IF op = "sendNotification" /\ notificationTooLarge(size)
       THEN /\ lastOp' = [op |-> op, size |-> size, connected |-> isConnected,
                          issued |-> 0, outcome |-> "rejected"]
            /\ UNCHANGED outstanding
       ELSE LET targets == sendCommand(ToLeft(op), ToRight(op))
            IN  /\ outstanding' = [outstanding EXCEPT !["op"] = targets]
                /\ lastOp' = [op |-> op,
                              size |-> IF op = "sendNotification" THEN size ELSE 0,
                              connected |-> isConnected,
                              issued |-> Cardinality(targets),
                              outcome |-> IF targets = {} THEN "resolved"
                                                          ELSE "pending"]
  /\ UNCHANGED <<coreVars, textVars, bmpVars>>

\* A write of a single-frame operation settles: the first failure rejects
\* the operation's promise, the last success resolves it.
SimpleSendWriteDone(e) ==
  /\ e \in outstanding["op"]
  /\ outstanding' = [outstanding EXCEPT !["op"] = @ \ {e}]
  /\ \E outcome \in WriteOutcomes(e) :
       lastOp' = IF lastOp.outcome # "pending" THEN lastOp
                 ELSE IF outcome = "fail" THEN [lastOp EXCEPT !.outcome = "rejected"]
                 ELSE IF promiseAllResolves("op", e)
                   THEN [lastOp EXCEPT !.outcome = "resolved"]
                 ELSE lastOp
  /\ UNCHANGED <<coreVars, budget, textVars, bmpVars, seqVars>>

\* What sendText does with a failed write of a frame: it has no handler,
\* the error leaves the call.
sendTextOnError == "threw"

\* sendText is invoked: not connected returns false; otherwise the text is
\* laid out and the first frame goes to sendCommand for both endpoints.
SendTextCall(words) ==
  /\ budget.send > 0
  /\ tpc = "idle"
  /\ outstanding["text"] = {}
  /\ budget' = [budget EXCEPT !.send = @ - 1]
  /\ textFailed' = FALSE
  /\ textDone' = [s \in Side |-> 0]
  /\ IF ~isConnected
       THEN /\ textResult' = "false"
            /\ UNCHANGED <<tpc, text, tIdx, outstanding, seqVars>>
       ELSE IF TextFrames(words) = <<>>
         THEN /\ textResult' = "true"
              /\ UNCHANGED <<tpc, text, tIdx, outstanding, seqVars>>
         ELSE /\ textResult' = "none"
              /\ createTextPacket
              /\ tpc' = "write"
              /\ text' = words
              /\ tIdx' = 1
              /\ outstanding' = [outstanding EXCEPT !["text"] = sendCommand(TRUE, TRUE)]
  /\ UNCHANGED <<coreVars, lastOp, bmpVars>>

\* A write of a text frame settles.  The last success resumes sendText,
\* which starts the 150 ms delay; a failure rejects sendCommand.
SendTextWriteDone(e) ==
  /\ e \in outstanding["text"]
  /\ outstanding' = [outstanding EXCEPT !["text"] = @ \ {e}]
  /\ \E outcome \in WriteOutcomes(e) :
       /\ textDone' = IF outcome = "ok" THEN [textDone EXCEPT ![e] = @ + 1]
                                         ELSE textDone
       /\ IF outcome = "ok" \/ tpc # "write"
         THEN /\ tpc' = IF tpc = "write" /\ promiseAllResolves("text", e)
                          THEN "delay" ELSE tpc
              /\ UNCHANGED <<text, tIdx, textFailed, textResult>>
         ELSE /\ textFailed' = TRUE
              /\ textResult' = sendTextOnError
              /\ tpc' = "idle"
              /\ text' = <<>>
              /\ tIdx' = 0
  /\ UNCHANGED <<coreVars, budget, lastOp, bmpVars, seqVars>>

\* sendCommand had no characteristic to write to: sendText goes on.
SendTextNoWrite ==
  /\ tpc = "write"
  /\ outstanding["text"] = {}
  /\ tpc' = "delay"
  /\ UNCHANGED <<coreVars, outstanding, budget, lastOp, text, tIdx, textDone,
                 textFailed, textResult, bmpVars, seqVars>>

\* The delay after a frame is over: the next frame, or return true.
SendTextDelayDone ==
  /\ tpc = "delay"
  /\ IF tIdx < Len(TextFrames(text))
       THEN /\ tIdx' = tIdx + 1
            /\ tpc' = "write"
            /\ createTextPacket
            /\ outstanding' = [outstanding EXCEPT !["text"] = sendCommand(TRUE, TRUE)]
            /\ UNCHANGED <<text, textResult>>
       ELSE /\ textResult' = "true"
            /\ tpc' = "idle"
            /\ text' = <<>>
            /\ tIdx' = 0
            /\ UNCHANGED <<outstanding, seqVars>>
  /\ UNCHANGED <<coreVars, budget, lastOp, textDone, textFailed, bmpVars>>

\* sendBMPImage hands the frame of the given stage to sendCommand for one
\* endpoint and awaits it.
bmpSend(stage, idx, side) ==
  /\ bpc' = stage
  /\ bIdx' = idx
  /\ bSide' = side
  /\ outstanding' = [outstanding EXCEPT
                       !["bmp"] = sendCommand(side = "left", side = "right")]

\* The dimension check of sendBMPImage.
validDimensions(img) == img.width = BMP_WIDTH /\ img.height = BMP_HEIGHT

\* sendBMPImage is invoked: the connection and the dimensions are checked,
\* the packets are built and the first one is sent to the left endpoint.
SendBMPImageCall(img) ==
  /\ budget.send > 0
  /\ bpc = "idle"
  /\ budget' = [budget EXCEPT !.send = @ - 1]
  /\ image' = img
  /\ bmpLog' = <<>>
  /\ bmpFailed' = FALSE
  /\ IF ~isConnected \/ ~validDimensions(img)
       THEN /\ bmpResult' = "false"
            /\ UNCHANGED <<bpc, bIdx, bSide, outstanding>>
       ELSE /\ bmpResult' = "none"
            /\ IF createBMPPackets(img.len) # <<>>
                 THEN bmpSend("packet", 1, "left")
                 ELSE bmpSend("end", 0, "left")
  /\ UNCHANGED <<coreVars, lastOp, textVars, seqVars>>

\* Frames of the current transfer endpoint e acknowledged.
bmpDone(e) == Cardinality({i \in DOMAIN bmpLog : bmpLog[i][1] = e})

\* Variant of bmpCatch that goes on to report success.
bmpCatchReturnsTrue ==
  /\ bmpFailed' = TRUE
  /\ bmpResult' = "true"
  /\ bpc' = "idle"
  /\ bIdx' = 0
  /\ bSide' = "left"
  /\ outstanding' = [outstanding EXCEPT !["bmp"] = {}]
  /\ UNCHANGED bmpLog

\* The catch block of sendBMPImage: return false.
bmpCatch ==
  /\ bmpFailed' = TRUE
  /\ bmpResult' = "false"
  /\ bpc' = "idle"
  /\ bIdx' = 0
  /\ bSide' = "left"
  /\ outstanding' = [outstanding EXCEPT !["bmp"] = {}]
  /\ UNCHANGED bmpLog

\* The awaited sendCommand of sendBMPImage settles.  A failed write is
\* caught.  Otherwise the same frame goes to the right endpoint, or the
\* delay after the frame starts, or the call returns true.
SendBMPImageWriteDone ==
  /\ bpc \in {"packet", "end", "crc"}
  /\ \E outcome \in (IF outstanding["bmp"] = {} THEN {"none"}
                                               ELSE WriteOutcomes(bSide)) :
       IF outcome = "fail"
         THEN bmpCatch
         ELSE /\ bmpLog' = IF outcome = "ok"
                             THEN Append(bmpLog, <<bSide, bpc, bIdx>>)
                             ELSE bmpLog
              /\ UNCHANGED bmpFailed
              /\ IF bSide = "left"
                   THEN bmpSend(bpc, bIdx, "right") /\ UNCHANGED bmpResult
                   ELSE /\ outstanding' = [outstanding EXCEPT !["bmp"] = {}]
                        /\ bpc' = CASE bpc = "packet" -> "delay"
                                    [] bpc = "end" -> "endDelay"
                                    [] OTHER -> "idle"
                        /\ bmpResult' = IF bpc = "crc" THEN "true" ELSE bmpResult
                        /\ bIdx' = IF bpc = "packet" THEN bIdx ELSE 0
                        /\ bSide' = "left"
  /\ UNCHANGED <<coreVars, budget, lastOp, textVars, image, seqVars>>

\* A delay of sendBMPImage is over: the next packet, the end marker after
\* the last packet, the CRC frame after the end marker.
SendBMPImageDelayDone ==
  /\ bpc \in {"delay", "endDelay"}
  /\ IF bpc = "endDelay"
       THEN bmpSend("crc", 0, "left")
       ELSE IF bIdx < Len(createBMPPackets(image.len))
         THEN bmpSend("packet", bIdx + 1, "left")
         ELSE bmpSend("end", 0, "left")
  /\ UNCHANGED <<coreVars, budget, lastOp, textVars, image, bmpLog,
                 bmpFailed, bmpResult, seqVars>>

\* --------------------------------------------------- inbound notifications
DEVICE_EVENTS == 245    \* 0xF5
GET_BATTERY == 44       \* 0x2C

\* Payloads the glasses send, as byte lists.
InboundPayloads ==
  { <<>>, <<245>>, <<44>>, <<7>>,
    <<245, 8>>, <<245, 11>>, <<245, 6>>, <<245, 7>>, <<245, 4>>, <<245, 5>>,
    <<245, 9>>, <<245, 14>>, <<245, 23>>, <<245, 0>>, <<245, 153>>,
    <<245, 8, 1, 2>>,
    <<44, 0, 1, 85>>, <<44, 0, 0, 200>>, <<44, 0, 3, 50, 1, 2>>, <<44, 1, 1>>,
    <<44, 0, 2, 100, 7>>,
    <<153, 1, 2, 3>> }
ObserverIds == {"a", "b"}

\* Variant of mapTypeToCommand with the two lid events exchanged.
mapTypeToCommandLidSwapped(type, ds) ==
  CASE type = 4 -> [ds EXCEPT !.isGlassesWorn = TRUE, !.isInSilentMode = TRUE]
    [] type = 5 -> [ds EXCEPT !.isGlassesWorn = TRUE, !.isInSilentMode = FALSE]
    [] type = 6 -> [ds EXCEPT !.isGlassesWorn = TRUE]
    [] type = 7 -> [ds EXCEPT !.isGlassesWorn = FALSE]
    [] type = 8 -> [ds EXCEPT !.isInCase = TRUE, !.isCaseOpen = FALSE]
    [] type = 9 -> [ds EXCEPT !.isGlassesCharging = TRUE]
    [] type = 11 -> [ds EXCEPT !.isInCase = TRUE, !.isCaseOpen = TRUE]
    [] type \in {14, 15} -> [ds EXCEPT !.isGlassesCharging = FALSE]
    [] type \in {17, 18, 23, 24, 30} -> [ds EXCEPT !.isGlassesWorn = TRUE]
    [] OTHER -> ds

\* The assignments mapTypeToCommand makes to the flags for an event type.
mapTypeToCommand(type, ds) ==
  CASE type = 4 -> [ds EXCEPT !.isGlassesWorn = TRUE, !.isInSilentMode = TRUE]
    [] type = 5 -> [ds EXCEPT !.isGlassesWorn = TRUE, !.isInSilentMode = FALSE]
    [] type = 6 -> [ds EXCEPT !.isGlassesWorn = TRUE]
    [] type = 7 -> [ds EXCEPT !.isGlassesWorn = FALSE]
    [] type = 8 -> [ds EXCEPT !.isInCase = TRUE, !.isCaseOpen = TRUE]
    [] type = 9 -> [ds EXCEPT !.isGlassesCharging = TRUE]
    [] type = 11 -> [ds EXCEPT !.isInCase = TRUE, !.isCaseOpen = FALSE]
    [] type \in {14, 15} -> [ds EXCEPT !.isGlassesCharging = FALSE]
    [] type \in {17, 18, 23, 24, 30} -> [ds EXCEPT !.isGlassesWorn = TRUE]
    [] OTHER -> ds

\* The event types for which mapTypeToCommand calls this.clearScreen().
clearsScreen(type) == type \in {23, 24}

\* Variant of forEach that walks the list from its end.
RECURSIVE forEachReversed(_)
forEachReversed(callbacks) ==
  IF callbacks = <<>> THEN <<>>
  ELSE forEachReversed(Tail(callbacks)) \o <<Head(callbacks)>>

\* callbacks.forEach(callback => callback(...)): the observers invoked, in
\* the order of the calls.  Observers return normally.
RECURSIVE forEach(_)
forEach(callbacks) ==
  IF callbacks = <<>> THEN <<>>
  ELSE <<Head(callbacks)>> \o forEach(Tail(callbacks))

\* Variant of dropped that still calls the device-event observers.
droppedStillDelivers ==
  /\ dispatched' = NoDispatch
  /\ delivered' = forEach(onDeviceEventCallbacks)
  /\ UNCHANGED <<deviceState, outstanding>>

\* A notification that reaches no observer and changes nothing.
dropped ==
  /\ dispatched' = NoDispatch
  /\ delivered' = <<>>
  /\ UNCHANGED <<deviceState, outstanding>>

\* Variant of handleDeviceEvent that drops the events whose type is above the
\* last named one (0x20) instead of handing them to the observers.
handleDeviceEventNamedOnly(bytes) ==
  IF Len(bytes) < 2 \/ bytes[2] > 32 THEN dropped
  ELSE /\ deviceState' = mapTypeToCommand(bytes[2], deviceState)
       /\ outstanding' =
            IF clearsScreen(bytes[2])
              THEN [outstanding EXCEPT !["event"] = @ \cup sendCommand(TRUE, TRUE)]
              ELSE outstanding
       /\ dispatched' = [kind |-> "event", type |-> bytes[2],
                         data |-> SubSeq(bytes, 3, Len(bytes))]
       /\ delivered' = forEach(onDeviceEventCallbacks)

handleDeviceEvent(bytes) ==
  IF Len(bytes) < 2 THEN dropped
  ELSE /\ deviceState' = mapTypeToCommand(bytes[2], deviceState)
       /\ outstanding' =
            IF clearsScreen(bytes[2])
              THEN [outstanding EXCEPT !["event"] = @ \cup sendCommand(TRUE, TRUE)]
              ELSE outstanding
       /\ dispatched' = [kind |-> "event", type |-> bytes[2],
                         data |-> SubSeq(bytes, 3, Len(bytes))]
       /\ delivered' = forEach(onDeviceEventCallbacks)

\* bytes[4] << 8 | bytes[5]; a missing bytes[5] counts as 0.
voltageOf(bytes) ==
  IF Len(bytes) > 4
    THEN bytes[5] * 256 + (IF Len(bytes) > 5 THEN bytes[6] ELSE 0)
    ELSE -1

\* Variant of handleBatteryUpdate that reads the percentage one byte early
\* and the charging bit one byte late.
handleBatteryUpdateShifted(bytes, isLeft) ==
  IF Len(bytes) < 4 THEN dropped
  ELSE /\ dispatched' = [kind |-> "battery", isLeft |-> isLeft,
                         percentage |-> bytes[3],
                         isCharging |-> (bytes[4] % 2 # 0),
                         voltage |-> voltageOf(bytes)]
       /\ delivered' = forEach(onBatteryUpdateCallbacks)
       /\ UNCHANGED <<deviceState, outstanding>>

\* handleBatteryUpdate: short payloads return; otherwise the BatteryInfo is
\* built and handed to every battery observer with the endpoint.
handleBatteryUpdate(bytes, isLeft) ==
  IF Len(bytes) < 4 THEN dropped
  ELSE /\ dispatched' = [kind |-> "battery", isLeft |-> isLeft,
                         percentage |-> bytes[4],
                         isCharging |-> (bytes[3] % 2 # 0),
                         voltage |-> voltageOf(bytes)]
       /\ delivered' = forEach(onBatteryUpdateCallbacks)
       /\ UNCHANGED <<deviceState, outstanding>>

\* Variant of handleNotification whose battery branch also records the
\* charging bit in isGlassesCharging.
handleNotificationBatterySetsCharging(bytes, isLeft) ==
  CASE bytes[1] = DEVICE_EVENTS -> handleDeviceEvent(bytes)
    [] bytes[1] = GET_BATTERY /\ Len(bytes) >= 4 ->
         /\ dispatched' = [kind |-> "battery", isLeft |-> isLeft,
                           percentage |-> bytes[4],
                           isCharging |-> (bytes[3] % 2 # 0),
                           voltage |-> voltageOf(bytes)]
         /\ delivered' = forEach(onBatteryUpdateCallbacks)
         /\ deviceState' = [deviceState EXCEPT
                              !.isGlassesCharging = (bytes[3] % 2 # 0)]
         /\ UNCHANGED outstanding
    [] OTHER -> dropped

\* handleNotification: the first byte selects the handler; other opcodes
\* are ignored.
handleNotification(bytes, isLeft) ==
  CASE bytes[1] = DEVICE_EVENTS -> handleDeviceEvent(bytes)
    [] bytes[1] = GET_BATTERY -> handleBatteryUpdate(bytes, isLeft)
    [] OTHER -> dropped

\* What an inbound notification leaves alone.
quietVars == <<sessionVars, timers, timerCount, linkOpen, subscribed, connVars,
               discVars, hbVars, lastOp, textVars, bmpVars, seqVars,
               layoutVars, wireVars>>

\* ------------------------------------------------------ getAudioRecording
\* The closure audioHandler of the n-th getAudioRecording call.
audioHandler(n) ==
  IF n = 1 THEN "audioHandler1"
  ELSE IF n = 2 THEN "audioHandler2" ELSE "audioHandler3"

\* typeof of the type field of the objects handleDeviceEvent hands to the
\* observers: bytes[1] of a Uint8Array.
typeofEventType == "number"

\* The test of audioHandler: data.type === 'audio' && data.sequence ===
\* sequence.  A strict comparison of a number with a string is false.
audioHandlerMatches(data, sequence) ==
  /\ typeofEventType = "string"
  /\ data.type = "audio"
  /\ data.sequence = sequence

\* The names in callbacks other than those in gone, in order.
RECURSIVE filterOut(_, _)
filterOut(callbacks, gone) ==
  IF callbacks = <<>> THEN <<>>
  ELSE IF Head(callbacks) \in gone THEN filterOut(Tail(callbacks), gone)
  ELSE <<Head(callbacks)>> \o filterOut(Tail(callbacks), gone)

\* What the audio handlers among the observers just invoked do: a handler
\* whose test passes stores the data, resolves its promise and takes itself
\* off the list; the others return.
audioHandlersRun ==
  LET matched == {n \in 1..Len(audioArgs) :
                    /\ \E i \in DOMAIN delivered' : delivered'[i] = audioHandler(n)
                    /\ audioHandlerMatches(dispatched', audioArgs[n])}
  IN  /\ onDeviceEventCallbacks' =
           filterOut(onDeviceEventCallbacks, {audioHandler(n) : n \in matched})
      /\ IF apc = "waiting" /\ Len(audioArgs) \in matched
           THEN apc' = "idle" /\ audioResult' = "resolved"
           ELSE UNCHANGED <<apc, audioResult>>
      /\ UNCHANGED audioArgs

\* The promise of the n-th getAudioRecording call is created: the 5 s
\* timeout is armed and audioHandler is pushed onto the device-event
\* observers.
audioWait(n) ==
  /\ apc' = "waiting"
  /\ onDeviceEventCallbacks' =
       Append(onDeviceEventCallbacks, audioHandler(n))
  /\ UNCHANGED audioResult

\* getAudioRecording(sequence) is invoked: the request frame goes to
\* sendCommand; with no characteristic to write to, sendCommand resolves at
\* once and the call goes on to wait.
GetAudioRecordingCall(sequence) ==
  /\ Len(audioArgs) < MaxAudioCalls
  /\ apc = "idle"
  /\ outstanding["audio"] = {}
  /\ audioArgs' = Append(audioArgs, IF sequence < 0 THEN 0
                                    ELSE IF sequence > 255 THEN 255 ELSE sequence)
  /\ outstanding' = [outstanding EXCEPT !["audio"] = sendCommand(TRUE, TRUE)]
  /\ IF sendCommand(TRUE, TRUE) = {}
       THEN audioWait(Len(audioArgs) + 1)
       ELSE /\ apc' = "write"
            /\ audioResult' = "none"
            /\ UNCHANGED onDeviceEventCallbacks
  /\ UNCHANGED <<quietVars, budget, deviceState, onBatteryUpdateCallbacks,
                 lastInbound, dispatched, delivered>>

\* A write of the request frame settles: a failure rejects the call before
\* any handler is registered, the last success lets it go on to wait.
GetAudioRecordingWriteDone(e) ==
  /\ e \in outstanding["audio"]
  /\ outstanding' = [outstanding EXCEPT !["audio"] = @ \ {e}]
  /\ \E outcome \in WriteOutcomes(e) :
       IF apc # "write"
         THEN UNCHANGED <<apc, audioResult, onDeviceEventCallbacks>>
       ELSE IF outcome = "fail"
         THEN /\ apc' = "idle"
              /\ audioResult' = "rejected"
              /\ UNCHANGED onDeviceEventCallbacks
       ELSE IF promiseAllResolves("audio", e) THEN audioWait(Len(audioArgs))
       ELSE UNCHANGED <<apc, audioResult, onDeviceEventCallbacks>>
  /\ UNCHANGED <<audioArgs, quietVars, budget, deviceState,
                 onBatteryUpdateCallbacks, lastInbound, dispatched, delivered>>

\* The 5 s timeout of the waiting call fires: reject(new Error(...)).
GetAudioRecordingTimeout ==
  /\ apc = "waiting"
  /\ apc' = "idle"
  /\ audioResult' = "timeout"
  /\ UNCHANGED <<audioArgs, onDeviceEventCallbacks, outstanding, quietVars,
                 budget, deviceState, onBatteryUpdateCallbacks, lastInbound,
                 dispatched, delivered>>

\* The monitor callback of endpoint e runs with a payload: an empty value
\* is skipped, any other goes to handleNotification.
InboundNotification(e, payload) ==
  /\ budget.notify > 0
  /\ subscribed[e] /\ linkOpen[e]
  /\ budget' = [budget EXCEPT !.notify = @ - 1]
  /\ lastInbound' = [payload |-> payload, isLeft |-> (e = "left")]
  /\ IF payload = <<>> THEN dropped
     ELSE handleNotification(payload, e = "left")
  /\ audioHandlersRun
  /\ UNCHANGED <<quietVars, onBatteryUpdateCallbacks>>

\* A write of the clearScreen() a device event started settles; nothing
\* awaits it.
EventWriteDone(e) ==
  /\ e \in outstanding["event"]
  /\ outstanding' = [outstanding EXCEPT !["event"] = @ \ {e}]
  /\ UNCHANGED <<quietVars, audioVars, budget, inboundVars>>

\* onDeviceEvent(callback).
OnDeviceEvent(o) ==
  /\ budget.register > 0
  /\ budget' = [budget EXCEPT !.register = @ - 1]
  /\ onDeviceEventCallbacks' = Append(onDeviceEventCallbacks, o)
  /\ UNCHANGED <<quietVars, audioVars, outstanding, deviceState, onBatteryUpdateCallbacks,
                 lastInbound, dispatched, delivered>>

\* onBatteryUpdate(callback).
OnBatteryUpdate(o) ==
  /\ budget.register > 0
  /\ budget' = [budget EXCEPT !.register = @ - 1]
  /\ onBatteryUpdateCallbacks' = Append(onBatteryUpdateCallbacks, o)
  /\ UNCHANGED <<quietVars, audioVars, outstanding, deviceState, onDeviceEventCallbacks,
                 lastInbound, dispatched, delivered>>

\* ---------------------------------------------------------- specification
Next ==
  \/ ConnectCall
  \/ \E e \in Side : ConnectToDeviceResolved(e)
  \/ \E e \in Side, opened \in BOOLEAN : ConnectToDeviceRejected(e, opened)
  \/ SetupCharacteristics
  \/ SetupNotifications
  \/ SendInitialCommands
  \/ ConnectDone
  \/ ConnectCancelLeft
  \/ ConnectCancelRight
  \/ DisconnectCall
  \/ DisconnectCancelLeft
  \/ DisconnectCancelRight
  \/ HeartbeatTick
  \/ \E e \in Side : HeartbeatWriteDone(e)
  \/ \E op \in SimpleOps, size \in NotificationSizes : SimpleSendCall(op, size)
  \/ \E e \in Side : SimpleSendWriteDone(e)
  \/ \E words \in TextInputs : SendTextCall(words)
  \/ \E e \in Side : SendTextWriteDone(e)
  \/ SendTextNoWrite
  \/ SendTextDelayDone
  \/ \E img \in BmpImages : SendBMPImageCall(img)
  \/ SendBMPImageWriteDone
  \/ SendBMPImageDelayDone

Spec == Init /\ [][Next]_vars

\* ------------------------------------------- connecting and listening
\* One connectToGlasses call, observers registering at any time, and the
\* notifications the glasses send once the monitors are set up.
InboundInit == Constructed /\ budget = InboundPlan

InboundNext ==
  \/ ConnectCall
  \/ \E e \in Side : ConnectToDeviceResolved(e)
  \/ \E e \in Side, opened \in BOOLEAN : ConnectToDeviceRejected(e, opened)
  \/ SetupCharacteristics
  \/ SetupNotifications
  \/ SendInitialCommands
  \/ ConnectDone
  \/ ConnectCancelLeft
  \/ ConnectCancelRight
  \/ \E e \in Side, payload \in InboundPayloads : InboundNotification(e, payload)
  \/ \E e \in Side : EventWriteDone(e)
  \/ \E o \in ObserverIds : OnDeviceEvent(o)
  \/ \E o \in ObserverIds : OnBatteryUpdate(o)

InboundSpec == InboundInit /\ [][InboundNext]_vars

\* ------------------------------------------------ one session's lifetime
\* One session object through connect, notifications, sends, a heartbeat
\* tick, disconnect and a second connect.
LifetimePlans ==
  { [connect |-> 2, disconnect |-> 1, tick |-> 1, send |-> 0,
     notify |-> 1, register |-> 0],
    [connect |-> 1, disconnect |-> 1, tick |-> 0, send |-> 1,
     notify |-> 1, register |-> 0] }

LifetimeInit == Constructed /\ budget \in LifetimePlans

LifetimeNext ==
  \/ Next
  \/ \E e \in Side, payload \in { <<245, 8>>, <<245, 6>>, <<44, 0, 1, 85>> } :
       InboundNotification(e, payload)

LifetimeSpec == LifetimeInit /\ [][LifetimeNext]_vars

\* ------------------------------------------------- requesting recordings
\* One connectToGlasses call, an application observer, getAudioRecording
\* calls one after the other, and the notifications the glasses send.
AudioPlan ==
  [connect |-> 1, disconnect |-> 0, tick |-> 0, send |-> 0,
   notify |-> 2, register |-> 1]

AudioInit == Constructed /\ budget = AudioPlan

AudioNext ==
  \/ ConnectCall
  \/ \E e \in Side : ConnectToDeviceResolved(e)
  \/ \E e \in Side, opened \in BOOLEAN : ConnectToDeviceRejected(e, opened)
  \/ SetupCharacteristics
  \/ SetupNotifications
  \/ SendInitialCommands
  \/ ConnectDone
  \/ ConnectCancelLeft
  \/ ConnectCancelRight
  \/ \E sequence \in {0, 300} : GetAudioRecordingCall(sequence)
  \/ \E e \in Side : GetAudioRecordingWriteDone(e)
  \/ GetAudioRecordingTimeout
  \/ \E e \in Side, payload \in { <<245, 0>>, <<241, 0, 7, 7>> } :
       InboundNotification(e, payload)
  \/ OnDeviceEvent("a")

AudioSpec == AudioInit /\ [][AudioNext]_vars

\* ------------------------------------------------- frame-building alone
\* One session building frame after frame, text frames and dashboard
\* frames in any order, far enough for the counter to pass 255 twice.
nonSeqVars == <<sessionVars, hbVars, timers, timerCount, linkOpen, subscribed,
                outstanding, budget, connVars, discVars, lastOp, textVars,
                bmpVars, inboundVars, layoutVars, wireVars, audioVars>>

BuildTextFrame ==
  /\ sequenceNumber < MaxFrames
  /\ createTextPacket
  /\ UNCHANGED nonSeqVars

BuildDashboardFrame ==
  /\ sequenceNumber < MaxFrames
  /\ dashboardSequence
  /\ UNCHANGED nonSeqVars

FrameNext ==
  \/ BuildTextFrame
  \/ BuildDashboardFrame

\* ------------------------------------------------------- laying out a text
\* splitTextIntoLines and splitIntoScreens are functions of their argument
\* alone.  A behaviour of LayoutSpec takes a text, splits it into lines and
\* groups the lines into screens, as sendText does before it sends a frame.
\* The texts are all texts of up to MaxWords words whose lengths lie around
\* the width of a line, and the texts of up to MaxLines words that fill a
\* line each.
LayoutTexts ==
  UNION { [1..k -> {0, 1, 18, 19, 38, 39}] : k \in 1..MaxWords }
    \cup { [i \in 1..k |-> 38] : k \in 1..MaxLines }

nonLayoutVars == <<sessionVars, hbVars, timers, timerCount, linkOpen, subscribed,
                   outstanding, budget, connVars, discVars, lastOp, textVars,
                   bmpVars, seqVars, inboundVars, wireVars, audioVars>>

LayoutInit ==
  /\ Session
  /\ NoWire
  /\ budget = InboundPlan
  /\ layoutText \in LayoutTexts
  /\ layoutLines = <<>>
  /\ layoutScreens = <<>>
  /\ layoutStep = "text"

\* const lines = this.splitTextIntoLines(text)
SplitTextIntoLines ==
  /\ layoutStep = "text"
  /\ layoutLines' = splitTextIntoLines(layoutText)
  /\ layoutStep' = "lines"
  /\ UNCHANGED <<layoutText, layoutScreens, nonLayoutVars>>

\* const screens = this.splitIntoScreens(lines)
SplitIntoScreens ==
  /\ layoutStep = "lines"
  /\ layoutScreens' = splitIntoScreens(layoutLines)
  /\ layoutStep' = "screens"
  /\ UNCHANGED <<layoutText, layoutLines, nonLayoutVars>>

LayoutNext == SplitTextIntoLines \/ SplitIntoScreens

LayoutSpec == LayoutInit /\ [][LayoutNext]_vars

\* ------------------------------------------------------- packing an image
\* createBMPPackets is a function of the image bytes alone.  A behaviour of
\* PacketSpec takes image data of up to MaxImageBytes bytes and packs it, as
\* sendBMPImage does before it sends a packet.
nonWireVars == <<sessionVars, hbVars, timers, timerCount, linkOpen, subscribed,
                 outstanding, budget, connVars, discVars, lastOp, textVars,
                 bmpVars, seqVars, inboundVars, layoutVars, audioVars>>

PacketInit ==
  /\ Session
  /\ NoLayout
  /\ budget = InboundPlan
  /\ \E len \in 0..MaxImageBytes : wireIn = [op |-> "createBMPPackets", len |-> len]
  /\ wireOut = [built |-> FALSE]

\* const packets = this.createBMPPackets(imageData.data)
CreateBMPPackets ==
  /\ wireIn.op = "createBMPPackets"
  /\ ~wireOut.built
  /\ wireOut' = [built |-> TRUE, packets |-> createBMPPackets(wireIn.len)]
  /\ UNCHANGED <<wireIn, nonWireVars>>

PacketNext == CreateBMPPackets

PacketSpec == PacketInit /\ [][PacketNext]_vars

\* ------------------------------------------------- the bytes of a text frame
\* The bytes of a frame of sendText depend on the arguments of the call and
\* on the sequence counter alone.  A behaviour of TextFrameSpec takes the
\* arguments of a call and builds its frames in the order sendText does.
\* A character of a word is the byte 97, a space 32, a line break 10.
RECURSIVE joinBytes(_, _)
joinBytes(parts, separator) ==
  IF parts = <<>> THEN <<>>
  ELSE IF Len(parts) = 1 THEN Head(parts)
  ELSE Head(parts) \o <<separator>> \o joinBytes(Tail(parts), separator)

\* new TextEncoder().encode(lines.join('\n'))
textBytes(lines) ==
  joinBytes([i \in DOMAIN lines |->
               joinBytes([j \in DOMAIN lines[i] |->
                            [c \in 1..lines[i][j] |-> 97]], 32)], 10)

\* createTextPackets: textBytes.slice(i, i + 194 - 10) for the k-th chunk.
textChunk(lines, k) ==
  LET bytes == textBytes(lines)
      last == IF k * TEXT_CHUNK_SIZE < Len(bytes) THEN k * TEXT_CHUNK_SIZE
                                                   ELSE Len(bytes)
  IN  SubSeq(bytes, (k - 1) * TEXT_CHUNK_SIZE + 1, last)

\* createTextPacket: the 9-byte header followed by the data.
textPacket(sequence, data, currentPacket, totalPackets, currentPage, maxPages) ==
  << SEND_TEXT, ToUint8(sequence), ToUint8(totalPackets), ToUint8(currentPacket),
     NEW_CONTENT + TEXT_SHOW, 0, 0, ToUint8(currentPage), ToUint8(maxPages) >>
    \o data

\* Math.min(x, DISPLAY_WIDTH - FONT_SIZE * 0.6) as the bit operators of
\* sendText see it: 488 - 12.6 = 475.4, truncated to an integer.
adjustedX(x) ==
  LET limit == (DISPLAY_WIDTH * 10 - FONT_SIZE * 6) \div 10
  IN  IF x < limit THEN x ELSE limit

\* y + screenIndex * LINES_PER_SCREEN * LINE_HEIGHT, LINE_HEIGHT = 21 * 1.2.
screenY(y, screenIndex) ==
  y + (screenIndex * LINES_PER_SCREEN * FONT_SIZE * 12) \div 10

\* The body of the loop of sendText on the packet createTextPacket
\* returned: the status and the position are stored into bytes 4 to 8.
positioned(packet, x, y, screenIndex, replace) ==
  [packet EXCEPT
     ![5] = IF replace THEN TEXT_SHOW ELSE NEW_CONTENT + TEXT_SHOW,
     ![6] = AndFF(adjustedX(x)),
     ![7] = AndFF(adjustedX(x) \div 256),
     ![8] = AndFF(screenY(y, screenIndex)),
     ![9] = AndFF(screenY(y, screenIndex) \div 256)]

\* The n-th frame sendText hands to sendCommand for the call, built with
\* the given value of the sequence counter.
textFrameBytes(call, n, sequence) ==
  LET fr == TextFrames(call.words)[n]
      screens == splitIntoScreens(splitTextIntoLines(call.words))
      data == textChunk(screens[fr.page + 1], fr.packet + 1)
  IN  positioned(textPacket(sequence, data, fr.packet, fr.total, fr.page,
                            fr.maxPages),
                 call.x, call.y, fr.page, call.replace)

FrameTexts == { <<5>>, <<5, 5>>, <<38, 38, 38, 38, 38>>, <<20, 20, 20, 20, 20, 20>> }
FramePositions == {0, 200, 600}

TextFrameInit ==
  /\ Session
  /\ NoLayout
  /\ budget = InboundPlan
  /\ \E words \in FrameTexts, x \in FramePositions, y \in FramePositions,
        replace \in BOOLEAN :
       wireIn = [op |-> "sendText", words |-> words, x |-> x, y |-> y,
                 replace |-> replace]
  /\ wireOut = [built |-> FALSE, n |-> 0, frame |-> <<>>]

\* One round of the loops of sendText up to its sendCommand.
SendTextFrame ==
  /\ wireIn.op = "sendText"
  /\ wireOut.n < Len(TextFrames(wireIn.words))
  /\ createTextPacket
  /\ wireOut' = [built |-> TRUE, n |-> wireOut.n + 1,
                 frame |-> textFrameBytes(wireIn, wireOut.n + 1, sequenceNumber)]
  /\ UNCHANGED <<wireIn, sessionVars, hbVars, timers, timerCount, linkOpen,
                 subscribed, outstanding, budget, connVars, discVars, lastOp,
                 textVars, bmpVars, inboundVars, layoutVars, audioVars>>

TextFrameNext == SendTextFrame

TextFrameSpec == TextFrameInit /\ [][TextFrameNext]_vars

\* ------------------------------------------- the bytes of an image transfer
\* The frames of sendBMPImage depend on the bytes of the image alone.  A
\* behaviour of BmpFrameSpec takes the data of a 576 x 136 image and builds
\* the frames in the order sendBMPImage hands them to sendCommand.
\*
\* A 32-bit register is the pair of its high and its low 16 bits.
RECURSIVE xorBits(_, _, _)
xorBits(a, b, n) ==
  IF n = 0 THEN 0
  ELSE (((a % 2) + (b % 2)) % 2) + 2 * xorBits(a \div 2, b \div 2, n - 1)

xor16(a, b) == xorBits(a, b, 16)

\* crc << 1
shiftLeft(crc) ==
  <<(crc[1] * 2 + crc[2] \div 32768) % 65536, (crc[2] * 2) % 65536>>

\* One round of the inner loop of calculateCRC32; the polynomial
\* 0x04C11DB7 is 0x04C1 (1217) over 0x1DB7 (7607).
crcBit(crc) ==
  IF crc[1] >= 32768
    THEN LET s == shiftLeft(crc) IN <<xor16(s[1], 1217), xor16(s[2], 7607)>>
    ELSE shiftLeft(crc)

\* crc ^= byte << 24, then the eight rounds.
crcByte(crc, byte) ==
  crcBit(crcBit(crcBit(crcBit(crcBit(crcBit(crcBit(crcBit(
    <<xor16(crc[1], byte * 256), crc[2]>>))))))))

\* The register after data[lo..hi], the bytes taken in ascending order.
RECURSIVE crcRange(_, _, _, _)
crcRange(crc, data, lo, hi) ==
  IF lo > hi THEN crc
  ELSE IF lo = hi THEN crcByte(crc, data[lo])
  ELSE LET mid == (lo + hi) \div 2
           left == crcRange(crc, data, lo, mid)
       IN  IF left[1] >= 0 THEN crcRange(left, data, mid + 1, hi) ELSE left

crcUpdate(crc, data) == crcRange(crc, data, 1, Len(data))

storageAddress == <<0, 28, 0, 0>>

\* calculateCRC32: the register starts at 0xFFFFFFFF, takes the storage
\* address and then the data, is complemented and its four bytes are
\* returned in reverse order.
calculateCRC32(data) ==
  LET crc == crcUpdate(crcUpdate(<<65535, 65535>>, storageAddress), data)
      result == <<65535 - crc[1], 65535 - crc[2]>>
  IN  <<(result[2] % 256) * 256 + result[2] \div 256,
        (result[1] % 256) * 256 + result[1] \div 256>>

\* uint32ToBytes: the most significant byte first.
uint32ToBytes(value) ==
  <<value[1] \div 256, value[1] % 256, value[2] \div 256, value[2] % 256>>

\* convertTo1BitBMP: a new array of 72 * 136 bytes; each row is written
\* into a copy slice() made of it, so the array stays as it was created.
convertTo1BitBMP(data) ==
  [i \in 1..(((BMP_WIDTH + 7) \div 8) * BMP_HEIGHT) |-> 0]

\* The CRC frame of sendBMPImage.
crcCommand(data) ==
  <<CRC_CHECK>>
    \o uint32ToBytes(calculateCRC32(storageAddress \o convertTo1BitBMP(data)))

\* Variant of bmpPacketBytes whose chunk ends one byte early:
\* imageData.slice(i, i + chunkSize - 1).
bmpPacketBytesShortChunk(data, k) ==
  LET i == (k - 1) * BMP_CHUNK_SIZE
      last == IF i + BMP_CHUNK_SIZE - 1 < Len(data) THEN i + BMP_CHUNK_SIZE - 1
                                                     ELSE Len(data)
      chunk == SubSeq(data, i + 1, last)
  IN  <<SEND_BITMAP, AndFF(i \div BMP_CHUNK_SIZE)>>
        \o (IF i = 0 THEN storageAddress ELSE <<>>) \o chunk

\* createBMPPackets: the bytes of packet k, counted from 1.
bmpPacketBytes(data, k) ==
  LET i == (k - 1) * BMP_CHUNK_SIZE
      last == IF i + BMP_CHUNK_SIZE < Len(data) THEN i + BMP_CHUNK_SIZE
                                                 ELSE Len(data)
      chunk == SubSeq(data, i + 1, last)
  IN  <<SEND_BITMAP, AndFF(i \div BMP_CHUNK_SIZE)>>
        \o (IF i = 0 THEN storageAddress ELSE <<>>) \o chunk

BmpDataLengths == {0, 1, 192, 193, 385, 600, 1000, 1500, 2000}
bmpDataOf(len) == [i \in 1..len |-> (i * 7) % 256]

BmpFrameInit ==
  /\ Session
  /\ NoLayout
  /\ budget = InboundPlan
  /\ \E len \in BmpDataLengths :
       wireIn = [op |-> "sendBMPImage", data |-> bmpDataOf(len)]
  /\ wireOut = [built |-> FALSE, stage |-> "packet", idx |-> 0,
                side |-> "right", frame |-> <<>>]

\* The frame sendBMPImage builds after the frame of the given stage and
\* index went to both endpoints.
nextBmpFrame(stage, idx) ==
  LET n == Len(createBMPPackets(Len(wireIn.data)))
  IN  IF stage = "packet" /\ idx < n
        THEN [built |-> TRUE, stage |-> "packet", idx |-> idx + 1, side |-> "left",
              frame |-> bmpPacketBytes(wireIn.data, idx + 1)]
      ELSE IF stage = "packet"
        THEN [built |-> TRUE, stage |-> "end", idx |-> 0, side |-> "left",
              frame |-> <<32, 13, 14>>]
      ELSE [built |-> TRUE, stage |-> "crc", idx |-> 0, side |-> "left",
            frame |-> crcCommand(wireIn.data)]

\* await this.sendCommand(frame, true, false) with the next frame.
BmpFrameToLeft ==
  /\ wireIn.op = "sendBMPImage"
  /\ wireOut.side = "right"
  /\ wireOut.stage # "crc"
  /\ wireOut' = nextBmpFrame(wireOut.stage, wireOut.idx)
  /\ UNCHANGED <<wireIn, nonWireVars>>

\* await this.sendCommand(frame, false, true) with the same frame.
BmpFrameToRight ==
  /\ wireIn.op = "sendBMPImage"
  /\ wireOut.side = "left"
  /\ wireOut' = [wireOut EXCEPT !.side = "right"]
  /\ UNCHANGED <<wireIn, nonWireVars>>

BmpFrameNext == BmpFrameToLeft \/ BmpFrameToRight

BmpFrameSpec == BmpFrameInit /\ [][BmpFrameNext]_vars

\* ---------------------------------------------- the bytes of the packets
\* A behaviour of PacketBytesSpec takes image data of up to MaxImageBytes
\* bytes and has createBMPPackets build the bytes of every packet.
PacketBytesInit ==
  /\ Session
  /\ NoLayout
  /\ budget = InboundPlan
  /\ \E len \in 0..MaxImageBytes :
       wireIn = [op |-> "createBMPPackets", data |-> bmpDataOf(len)]
  /\ wireOut = [built |-> FALSE]

\* const packets = this.createBMPPackets(imageData.data), byte by byte.
CreateBMPPacketBytes ==
  /\ wireIn.op = "createBMPPackets"
  /\ ~wireOut.built
  /\ wireOut' =
       [built |-> TRUE,
        packets |-> [k \in 1..Len(createBMPPackets(Len(wireIn.data))) |->
                       bmpPacketBytes(wireIn.data, k)]]
  /\ UNCHANGED <<wireIn, nonWireVars>>

PacketBytesNext == CreateBMPPacketBytes

PacketBytesSpec == PacketBytesInit /\ [][PacketBytesNext]_vars

FrameInit == Constructed /\ budget = InboundPlan

FrameSpec == FrameInit /\ [][FrameNext]_vars

\* ------------------------------------------------------------------ claims
\* C1: a connectToGlasses call that failed has returned false with no
\* endpoint connection left open; in particular the left endpoint's
\* connection is closed when only the right endpoint's connect failed.
C1_FailedConnectLeavesNoLink ==
  connResult = "false" => \A e \in Side : ~linkOpen[e]

\* C2: a send operation invoked while the session is not connected reports
\* a failure to its caller and hands no write to the transport.  Stated for
\* sendNotification, setBrightness, setSilentMode, clearScreen and
\* getBatteryStatus; sendText returns false on entry when not connected.
C2_SendWhileNotConnectedFails ==
  (lastOp.op # "none" /\ ~lastOp.connected)
    => (lastOp.issued = 0 /\ lastOp.outcome = "rejected")

\* C3: sendBMPImage with an image wider than the display maximum of 488
\* pixels returns false and no frame of the image is written.
C3_WideImageRejected ==
  image.width > DISPLAY_WIDTH
    => (bpc = "idle" /\ bmpResult = "false" /\ bmpLog = <<>>
        /\ outstanding["bmp"] = {})

\* C4: when sendBMPImage has returned true, the writes the endpoints
\* acknowledged are, in order, every packet in ascending order, one end
\* marker and one CRC frame, each on the left endpoint and then on the
\* right endpoint.
C4_CompleteTransferOnTrue ==
  bmpResult = "true" =>
    LET n == Len(createBMPPackets(image.len))
        frames == [k \in 1..n |-> <<"packet", k>>]
                    \o << <<"end", 0>>, <<"crc", 0>> >>
    IN  bmpLog = [i \in 1..(2 * Len(frames)) |->
                    <<IF i % 2 = 1 THEN "left" ELSE "right",
                      frames[(i + 1) \div 2][1], frames[(i + 1) \div 2][2]>>]

\* C5: once a write of a sendBMPImage call failed, the call has returned
\* false, no frame of the transfer is in flight or will be issued, and the
\* frames written before the failure stay as they were.
C5_BmpWriteFailureAborts ==
  /\ [](bmpFailed => (bmpResult = "false" /\ bpc = "idle"
                      /\ outstanding["bmp"] = {}))
  /\ [][bmpFailed' => bmpLog' = bmpLog]_vars

\* C5 witness: a transfer failed after some of its frames were written.
C5_Witness == bmpFailed /\ Len(bmpLog) >= 2

\* C6: a sendText call one of whose writes failed has returned false; no
\* exception reached its caller.
C6_TextWriteFailureReturnsFalse ==
  textFailed => textResult = "false"

\* C7: after disconnect() has completed no heartbeat tick fires until
\* connectToGlasses is called again.
C7_NoTickAfterDisconnect ==
  [][quiet = "yes" => heartbeatSequence' = heartbeatSequence]_vars

\* C8: a failed heartbeat write leaves the timers, isConnected and both
\* device handles as they were and changes the outcome of no call; the
\* scheduler is not stopped.
C8_HeartbeatFailureIsSwallowed ==
  [][hbFailTick' # hbFailTick =>
       /\ timers' = timers
       /\ heartbeatInterval' = heartbeatInterval
       /\ isConnected' = isConnected
       /\ leftDevice' = leftDevice /\ rightDevice' = rightDevice
       /\ connResult' = connResult /\ textResult' = textResult
       /\ bmpResult' = bmpResult /\ lastOp' = lastOp]_vars

\* C8 witness: a tick fired after a tick whose write failed, on a session
\* that is still connected.
C8_Witness ==
  hbFailTick > 0 /\ heartbeatSequence > hbFailTick /\ isConnected

\* C9: after disconnect() has returned the session is released: not
\* connected, no heartbeat timer, no device handle and no write
\* characteristic.
C9_ReleasedAfterDisconnect ==
  quiet = "yes" =>
    /\ ~isConnected
    /\ heartbeatInterval = 0
    /\ ~leftDevice /\ ~rightDevice
    /\ ~leftTxCharacteristic /\ ~rightTxCharacteristic

\* C10: disconnect() called after a disconnect() has returned makes no
\* transport call and changes no field of the session.
C10_DisconnectIdempotent ==
  [][(quiet = "yes" /\ budget'.disconnect # budget.disconnect)
       => (dpc' = "idle" /\ UNCHANGED <<sessionVars, linkOpen, outstanding>>)]_vars

\* C11: the sequence byte of each frame built is the sequence byte of the
\* frame built before it plus 1 modulo 256, for text frames and dashboard
\* frames sharing the counter and beyond 256 frames.
C11_SequenceByteCycles ==
  [][(sequenceNumber' # sequenceNumber /\ sequenceByte # -1)
       => sequenceByte' = (sequenceByte + 1) % 256]_vars

\* C11 witness: the frame built after the one carrying 255 carries 0.
C11_Witness == sequenceNumber = 257 /\ sequenceByte = 0

C13_WritesSerializedPerEndpoint ==
  \A e \in Side : Cardinality({o \in Owners : e \in outstanding[o]}) <= 1

\* C14: a sendNotification whose JSON is longer than 180 bytes is rejected
\* with no write handed to the transport; one of 180 bytes or fewer is
\* rejected only by a write that failed.
C14_NotificationCap ==
  lastOp.op = "sendNotification" =>
    IF lastOp.size > 180
      THEN lastOp.issued = 0 /\ lastOp.outcome = "rejected"
      ELSE lastOp.outcome = "rejected" => lastOp.issued > 0

\* C14 witness: a notification of 181 bytes was rejected while the left
\* characteristic was there to write to.
C14_Witness ==
  /\ lastOp.op = "sendNotification" /\ lastOp.size = 181
  /\ lastOp.outcome = "rejected" /\ leftTxCharacteristic

\* C15: an inbound notification whose payload is shorter than 2 bytes, from
\* either endpoint and with any first byte, changes no DeviceState flag,
\* invokes no observer and starts no write.
C15_ShortPayloadDropped ==
  [][(budget'.notify # budget.notify /\ Len(lastInbound'.payload) < 2)
       => (/\ deviceState' = deviceState
           /\ delivered' = <<>> /\ dispatched' = NoDispatch
           /\ outstanding' = outstanding)]_vars

\* C15 witness: a one-byte device-event payload arrived with a device-event
\* observer registered.
C15_Witness ==
  lastInbound.payload = <<245>> /\ onDeviceEventCallbacks # <<>>

\* C16: an inbound payload of at least 4 bytes whose first byte is 0x2C
\* hands every battery observer a BatteryInfo whose percentage is byte 3 and
\* whose isCharging is bit 0 of byte 2, tagged with the endpoint the
\* notification came from.
C16_BatteryDecoded ==
  [][(/\ budget'.notify # budget.notify
      /\ Len(lastInbound'.payload) >= 4
      /\ lastInbound'.payload[1] = 44)
       => (/\ dispatched'.kind = "battery"
           /\ dispatched'.percentage = lastInbound'.payload[4]
           /\ dispatched'.isCharging = (lastInbound'.payload[3] % 2 = 1)
           /\ dispatched'.isLeft = lastInbound'.isLeft
           /\ delivered' = onBatteryUpdateCallbacks)]_vars

\* C16 witness: [0x2C, 0x00, 0x01, 85] from the right endpoint reached a
\* battery observer as 85 percent, charging.
C16_Witness ==
  /\ lastInbound = [payload |-> <<44, 0, 1, 85>>, isLeft |-> FALSE]
  /\ dispatched.kind = "battery"
  /\ dispatched.percentage = 85 /\ dispatched.isCharging /\ ~dispatched.isLeft
  /\ delivered # <<>>

\* C17: a device event with sub-code 0x08 sets isInCase and isCaseOpen and
\* leaves the other flags as they were; sub-code 0x0B sets isInCase and
\* clears isCaseOpen.
C17_CaseEvents ==
  [][(/\ budget'.notify # budget.notify
      /\ Len(lastInbound'.payload) >= 2
      /\ lastInbound'.payload[1] = 245
      /\ lastInbound'.payload[2] \in {8, 11})
       => deviceState' = [deviceState EXCEPT
                            !.isInCase = TRUE,
                            !.isCaseOpen = (lastInbound'.payload[2] = 8)]]_vars

\* C17 witness: the lid-open event arrived on glasses that were worn and
\* left them worn, in the case, lid open.
C17_Witness ==
  /\ lastInbound.payload = <<245, 8, 1, 2>>
  /\ deviceState.isGlassesWorn
  /\ deviceState.isInCase /\ deviceState.isCaseOpen

\* C18: registering an observer adds it after those registered before, and
\* a dispatched device event or battery update invokes the observers
\* registered for its kind at that moment once each, in that order.
C18_DispatchInRegistrationOrder ==
  /\ [][(budget'.notify # budget.notify /\ dispatched'.kind = "event")
          => delivered' = onDeviceEventCallbacks]_vars
  /\ [][(budget'.notify # budget.notify /\ dispatched'.kind = "battery")
          => delivered' = onBatteryUpdateCallbacks]_vars
  /\ [][onDeviceEventCallbacks' # onDeviceEventCallbacks
          => SubSeq(onDeviceEventCallbacks', 1, Len(onDeviceEventCallbacks') - 1)
               = onDeviceEventCallbacks]_vars
  /\ [][onBatteryUpdateCallbacks' # onBatteryUpdateCallbacks
          => SubSeq(onBatteryUpdateCallbacks', 1, Len(onBatteryUpdateCallbacks') - 1)
               = onBatteryUpdateCallbacks]_vars

\* C18 witness: a device event reached observer b and then observer a,
\* registered in that order.
C18_Witness ==
  /\ dispatched.kind = "event"
  /\ onDeviceEventCallbacks = <<"b", "a">>
  /\ delivered = <<"b", "a">>

\* C19: every line splitTextIntoLines returns has at most 38 characters
\* (488 / 12.6), unless the line is a single word that alone is longer.
C19_LinesFitDisplay ==
  layoutStep # "text" =>
    \A i \in DOMAIN layoutLines :
      \/ LineLength(layoutLines[i]) <= 38
      \/ Len(layoutLines[i]) = 1 /\ layoutLines[i][1] > 38

\* A text whose first line is full with two words and whose last line is a
\* single word wider than the display.
C19_Witness ==
  /\ layoutStep # "text"
  /\ \E i \in DOMAIN layoutLines :
       Len(layoutLines[i]) = 2 /\ LineLength(layoutLines[i]) = 38
  /\ \E i \in DOMAIN layoutLines :
       Len(layoutLines[i]) = 1 /\ LineLength(layoutLines[i]) = 39

\* C20: splitIntoScreens returns ceil(len / 5) groups, each of 1 to 5 lines
\* and every group but the last of 5 lines, and the groups in order make up
\* the list of lines it was given.
C20_ScreensPartitionLines ==
  layoutStep = "screens" =>
    /\ Len(layoutScreens) = (Len(layoutLines) + 4) \div 5
    /\ \A i \in DOMAIN layoutScreens :
         /\ Len(layoutScreens[i]) \in 1..5
         /\ i < Len(layoutScreens) => Len(layoutScreens[i]) = 5
    /\ flat(layoutScreens) = layoutLines

\* Eleven lines grouped into three screens, the last of one line.
C20_Witness ==
  /\ layoutStep = "screens"
  /\ Len(layoutLines) = 11
  /\ Len(layoutScreens) = 3
  /\ Len(layoutScreens[3]) = 1

\* C21 as stated: createBMPPackets yields ceil(len / 192) packets and packet
\* 0 is exactly 4 bytes longer than every later packet.
C21_FirstPacketFourLonger ==
  wireOut.built =>
    /\ Len(wireOut.packets) = (wireIn.len + 191) \div 192
    /\ \A k \in 2..Len(wireOut.packets) :
         wireOut.packets[1].length = wireOut.packets[k].length + 4

\* C21 as amended: createBMPPackets yields ceil(len / 192) packets; each
\* packet is its chunk of the image bytes behind a 2-byte header, and packet
\* 0 has the 4-byte storage address between the two, so that it is 4 bytes
\* longer than every later packet that carries a full chunk.
C21_FirstHeaderFourLonger ==
  wireOut.built =>
    LET n == Len(wireOut.packets)
        chunk(k) == IF k < n THEN 192 ELSE wireIn.len - 192 * (n - 1)
    IN  /\ n = (wireIn.len + 191) \div 192
        /\ \A k \in 1..n :
             wireOut.packets[k].length = chunk(k) + (IF k = 1 THEN 6 ELSE 2)
        /\ \A k \in 2..n :
             chunk(k) = 192 =>
               wireOut.packets[1].length = wireOut.packets[k].length + 4

\* Three packets, the second full and the third short.
C21_Witness ==
  /\ wireOut.built
  /\ Len(wireOut.packets) = 3
  /\ wireOut.packets[1].length = 198
  /\ wireOut.packets[2].length = 194
  /\ wireOut.packets[3].length = 3

\* C25: every image packet sendBMPImage hands to sendCommand is at most 194
\* bytes long, header and storage address included.
C25_PacketWithinCap ==
  bpc = "packet" => createBMPPackets(image.len)[bIdx].length <= 194

\* C23: a text frame of sendText is the opcode 0x4E, the sequence, the
\* packet count, the packet index, the status flags, the position x and the
\* position y as two little-endian bytes each, the page, the page count,
\* and from byte 11 on the text of the packet.
C23_TextFrameLayout ==
  (wireIn.op = "sendText" /\ wireOut.built) =>
    LET f == wireOut.frame
        fr == TextFrames(wireIn.words)[wireOut.n]
        screens == splitIntoScreens(splitTextIntoLines(wireIn.words))
        payload == textChunk(screens[fr.page + 1], fr.packet + 1)
        px == adjustedX(wireIn.x)
        py == screenY(wireIn.y, fr.page)
    IN  /\ Len(f) = 11 + Len(payload)
        /\ f[1] = 78
        /\ f[2] = sequenceByte
        /\ f[3] = fr.total
        /\ f[4] = fr.packet
        /\ f[5] \in {112, 113}
        /\ f[6] = px % 256 /\ f[7] = px \div 256
        /\ f[8] = py % 256 /\ f[9] = py \div 256
        /\ f[10] = fr.page
        /\ f[11] = fr.maxPages
        /\ SubSeq(f, 12, Len(f)) = payload

\* C24: the CRC frame of sendBMPImage is 0x16 followed by the four bytes,
\* most significant first, of the CRC-32 (register 0xFFFFFFFF, polynomial
\* 0x04C11DB7, most significant bit first, complemented at the end) of the
\* image bytes the packets carried, with or without the storage address
\* once in front of them.
C24_CrcFrame ==
  (wireIn.op = "sendBMPImage" /\ wireOut.stage = "crc") =>
    LET crcOf(bytes) ==
          LET crc == crcUpdate(<<65535, 65535>>, bytes)
          IN  <<(65535 - crc[1]) \div 256, (65535 - crc[1]) % 256,
                (65535 - crc[2]) \div 256, (65535 - crc[2]) % 256>>
    IN  \/ wireOut.frame = <<22>> \o crcOf(wireIn.data)
        \/ wireOut.frame = <<22>> \o crcOf(<<0, 28, 0, 0>> \o wireIn.data)

\* C26: when connectToGlasses has returned true, the transport acknowledged
\* exactly one init frame [0x4D, 0xFB] of the call, on the left endpoint; and
\* while the init write is in flight no heartbeat timer is started and the
\* session does not become connected.
C26_InitFrameBeforeHeartbeat ==
  /\ [](connResult = "true" => initLog = << <<"left", <<77, 251>>>> >>)
  /\ [][outstanding["init"] # {} =>
          (timerCount' = timerCount /\ (isConnected' => isConnected))]_vars

\* C27: a disconnect() call leaves the writes in flight as they are, and
\* from the call on no write of a further frame of a sendText or
\* sendBMPImage message is issued on either endpoint (the frame in flight
\* may still go to the second endpoint).
C27_NoFrameAfterDisconnect ==
  /\ [][budget.disconnect' < budget.disconnect => outstanding' = outstanding]_vars
  /\ [][quiet # "no" =>
          /\ outstanding'["text"] \subseteq outstanding["text"]
          /\ \/ outstanding'["bmp"] \subseteq outstanding["bmp"]
             \/ bpc' = bpc /\ bIdx' = bIdx]_vars

\* C28: the k-th heartbeat tick, k counted from 0, writes the frame
\* [0x25, k mod 256] to both endpoints and leaves the frame sequence number
\* as it is; building a text or dashboard frame leaves the heartbeat
\* sequence as it is.
C28_HeartbeatFrame ==
  /\ [][heartbeatSequence' # heartbeatSequence =>
          /\ heartbeatCommand' = <<37, heartbeatSequence % 256>>
          /\ outstanding'["hb"] = {"left", "right"}
          /\ sequenceNumber' = sequenceNumber]_vars
  /\ [][sequenceNumber' # sequenceNumber =>
          heartbeatSequence' = heartbeatSequence]_vars

\* C29: a device event whose sub-code is none of the named cases of
\* mapTypeToCommand leaves all five DeviceState flags as they were, and is
\* still handed, with its sub-code as type, to every registered device-event
\* observer.
C29_UnknownEventKeepsState ==
  [][(/\ budget'.notify # budget.notify
      /\ Len(lastInbound'.payload) >= 2
      /\ lastInbound'.payload[1] = 245
      /\ lastInbound'.payload[2] \notin
           {0, 1, 2, 3, 4, 5, 6, 7, 8, 9, 11, 14, 15, 17, 18, 23, 24, 30, 31, 32})
       => /\ deviceState' = deviceState
          /\ dispatched'.kind = "event"
          /\ dispatched'.type = lastInbound'.payload[2]
          /\ delivered' = onDeviceEventCallbacks]_vars

\* C29 witness: sub-code 0x99 arrived on glasses already in the case, with
\* two observers registered; both were invoked and the flags are as before.
C29_Witness ==
  /\ lastInbound.payload = <<245, 153>>
  /\ deviceState.isInCase /\ deviceState.isCaseOpen
  /\ Len(onDeviceEventCallbacks) = 2
  /\ delivered = onDeviceEventCallbacks
  /\ dispatched.kind = "event" /\ dispatched.type = 153

\* C30: each of isGlassesWorn, isInCase, isGlassesCharging and isInSilentMode
\* can be switched both ways by device events: in every state some sub-code
\* handled by mapTypeToCommand leaves the flag true and some sub-code leaves
\* it false, so a state with isInCase = TRUE has an event that clears it.
C30_FlagsSwitchBothWays ==
  \A flag \in {"isGlassesWorn", "isInCase", "isGlassesCharging", "isInSilentMode"} :
    /\ \E type \in 0..255 : mapTypeToCommand(type, deviceState)[flag]
    /\ \E type \in 0..255 : ~mapTypeToCommand(type, deviceState)[flag]

\* C31: the DeviceState flags change only in a step that processes an
\* inbound device-event notification (first byte 0xF5, at least two bytes):
\* connecting, disconnecting, sending, heartbeat ticks and battery
\* notifications leave all five flags as they were.
C31_StateChangedOnlyByEvents ==
  [][deviceState' # deviceState =>
       /\ budget'.notify # budget.notify
       /\ Len(lastInbound'.payload) >= 2
       /\ lastInbound'.payload[1] = 245]_vars

\* C31 witness: the flags an event set while connected are still set after
\* a disconnect() that has returned and released both endpoints.
C31_Witness ==
  /\ quiet = "yes" /\ dpc = "idle"
  /\ ~isConnected /\ ~leftDevice /\ ~rightDevice
  /\ budget.disconnect = 0
  /\ deviceState.isInCase /\ deviceState.isCaseOpen

\* C32: every BatteryInfo handed to a battery observer has a percentage
\* between 0 and 100, whatever the percentage byte of the payload.
C32_PercentageInRange ==
  (dispatched.kind = "battery" /\ delivered # <<>>)
    => dispatched.percentage \in 0..100

\* C33: whenever isConnected is true, both endpoint handles and both write
\* characteristics are held and the heartbeat timer the session names is
\* active, also when disconnect() ran while connectToGlasses was suspended.
C33_ConnectedMeansComplete ==
  isConnected =>
    /\ leftDevice /\ rightDevice
    /\ leftTxCharacteristic /\ rightTxCharacteristic
    /\ heartbeatInterval # 0 /\ heartbeatInterval \in timers

\* C34: when sendText returns true, each endpoint has acknowledged a write
\* of every frame of the message, also when disconnect() ran during the
\* call.
C34_TextTrueMeansAllWritten ==
  [][(tpc # "idle" /\ tpc' = "idle" /\ textResult' = "true")
       => \A e \in Side : textDone[e] = Len(TextFrames(text))]_vars

\* C35: at most one heartbeat interval is active at any time, whatever the
\* sequence of connectToGlasses and disconnect calls.
C35_AtMostOneHeartbeatTimer ==
  Cardinality(timers) <= 1

\* C36: processing an inbound notification, whatever its opcode and
\* sub-code, starts no transport write on either endpoint.
C36_InboundStartsNoWrite ==
  [][budget'.notify # budget.notify => outstanding' = outstanding]_vars

\* C37: once a getAudioRecording call has settled, by resolving or by its
\* timeout, the handler it pushed is no longer among the device-event
\* observers, so repeated calls do not make the list grow.
C37_AudioHandlerRemoved ==
  (apc = "idle" /\ audioResult \in {"resolved", "timeout"})
    => \A i \in DOMAIN onDeviceEventCallbacks :
         \A n \in 1..Len(audioArgs) : onDeviceEventCallbacks[i] # audioHandler(n)

\* C38: the non-empty words of the text given to splitTextIntoLines are the
\* non-empty words of the lines it returns, taken line by line, in the same
\* order: no word is dropped, duplicated or moved, and each lies whole in
\* one line.
C38_LinesKeepWords ==
  layoutStep # "text" =>
    LET IsWord(w) == w > 0
    IN  SelectSeq(flat(layoutLines), IsWord) = SelectSeq(layoutText, IsWord)

\* C38 witness: a text with an empty word (two spaces in a row) and a word
\* wider than the display was split into two lines.
C38_Witness ==
  /\ layoutStep # "text"
  /\ layoutText = <<19, 0, 39>>
  /\ layoutLines = << <<19, 0>>, <<39>> >>

\* C39: the payloads of the packets createBMPPackets returns, each packet
\* without its 2-byte header and packet 0 also without its 4-byte storage
\* address, concatenated in packet order, are the image bytes it was given.
C39_ChunkingLossless ==
  wireOut.built =>
    flat([k \in DOMAIN wireOut.packets |->
            SubSeq(wireOut.packets[k], IF k = 1 THEN 7 ELSE 3,
                   Len(wireOut.packets[k]))])
      = wireIn.data

\* C39 witness: 385 bytes went into three packets, of 198, 194 and 3 bytes.
C39_Witness ==
  /\ wireOut.built
  /\ Len(wireIn.data) = 385
  /\ Len(wireOut.packets) = 3
  /\ Len(wireOut.packets[1]) = 198
  /\ Len(wireOut.packets[2]) = 194
  /\ wireOut.packets[3] = <<21, 2, wireIn.data[385]>>

====
